---- MODULE Spec2Model ----
(***************************************************************************)
(* A model of the command-line HTTP client adamijak/http.                  *)
(*                                                                         *)
(* Text is modelled byte by byte: a Go string is a sequence of one-       *)
(* character strings, so that trimming, splitting, parsing of numbers and  *)
(* byte counting are computed the way the code computes them.             *)
(*                                                                         *)
(* Specifications:                                                         *)
(*   Spec          main from its start: read, Parse, Validate, the flags,  *)
(*                 client.Send with its connection and readResponse        *)
(*   SpecValidate  validator.Validate on a parsed request                  *)
(*   SpecRead      client.readResponse / readChunkedBody over a byte       *)
(*                 stream that ends by close, reset or deadline            *)
(*   SpecParse     parser.Parse on templates of a few lines, with what the *)
(*                 preprocessor looked up, ran and emitted                 *)
(***************************************************************************)
EXTENDS Integers, Sequences, FiniteSets, TLC

VARIABLES
    stream,     \* the bytes the peer delivers before the connection ends
    endMode,    \* how a read past the end of stream fails: "closed" (EOF), "reset", "timeout"
    ghost,      \* how stream was built (never read by the program)
    rpc,        \* position inside readResponse
    rpos,       \* number of bytes the bufio.Reader has handed out
    resp,       \* the HTTPResponse under construction
    sb,         \* the strings.Builder of readChunkedBody
    framing,    \* the body framing readResponse chose: "none", "cl", "chunked", "close"
    bodyStart,  \* rpos when the blank line ending the headers had been read
    ioErr,      \* the error of the read that failed: "none", "closed", "reset", "timeout"
    sizeLines,  \* the chunk-size lines readChunkedBody has parsed, in order
    rout,       \* what readResponse returned: "none", "resp", "err", "panic"
    rerr        \* the message of the returned error

readVars == <<stream, endMode, ghost, rpc, rpos, resp, sb, framing, bodyStart, ioErr, sizeLines, rout, rerr>>

VARIABLES
    sendCalls,  \* the number of calls of client.Send
    conn,       \* the connection of Send: "none", "open", "closed"
    dials,      \* the number of connections opened
    dialAddr,   \* the host:port Send dialled
    tlsDone,    \* a TLS handshake has completed on the connection
    tlsConfig,  \* the tls.Config Send built for the connection
    peerCert,   \* the host name the certificate of the peer is valid for
    writes,     \* the number of times the request was written to a connection
    wire,       \* the bytes of the request written
    sendResult, \* what Send returned: "none", "resp", "err", "panic"
    sendErr     \* the message of the error Send returned

sendVars == <<sendCalls, conn, dials, dialAddr, tlsDone, tlsConfig, peerCert, writes, wire, sendResult, sendErr>>

VARIABLES
    cli,        \* which main runs: "main.go", or "no-send" for the main with -no-send
    flags,      \* the command-line flags
    input,      \* the text read from standard input or from the file
    parsing,    \* what parsing the input did: the preprocessor run, the lookups, the commands, the error
    pc,         \* position inside main and Send
    req,        \* the HTTPRequest
    req0,       \* the HTTPRequest as the parser returned it
    result,     \* the ValidationResult
    exitCode,   \* the exit status of the process, -1 while it runs
    output,     \* what the process produced: "none", "saved", "preview", "raw", "response"
    rawText     \* the text of ToRawRequest that was saved or printed

mainVars == <<cli, flags, input, parsing, pc, req, req0, result, exitCode, output, rawText>>

VARIABLES
    Requests,   \* ts.Requests of the test server: a slice header [arr, len, cap]
    mu,         \* ts.mu: the goroutine that holds the mutex, 0 when it is free
    heap,       \* the backing arrays allocated for slices, in the order of allocation
    gpc,        \* the position of each goroutine: the handlers and the test
    loaded,     \* for each handler, the slice header its append has read
    snapshots,  \* what GetRequests returned, in order: the slice, and its elements at that time
    clears      \* the number of ClearRequests calls that have returned

serverVars == <<Requests, mu, heap, gpc, loaded, snapshots, clears>>

vars == <<mainVars, sendVars, readVars, serverVars>>

----------------------------------------------------------------------------
(* Bounds of the model *)

\* the largest number of chunks of a generated well-formed chunked body
MaxChunks == 2
\* the largest payload length of a generated chunk
MaxChunkLen == 2

----------------------------------------------------------------------------
(* Bytes and the string functions of the Go standard library the code uses *)

CR == "\r"
LF == "\n"
SP == " "
TAB == "\t"

UpperLetters == <<"A","B","C","D","E","F","G","H","I","J","K","L","M","N","O","P","Q","R","S","T","U","V","W","X","Y","Z">>
LowerLetters == <<"a","b","c","d","e","f","g","h","i","j","k","l","m","n","o","p","q","r","s","t","u","v","w","x","y","z">>
DecDigits == <<"0","1","2","3","4","5","6","7","8","9">>

Range(f) == {f[i] : i \in DOMAIN f}
Min(S) == CHOOSE x \in S : \A y \in S : x <= y
\* F applied to the value of e, e being evaluated once
With(e, F(_)) == CHOOSE r \in {F(x) : x \in {e}} : TRUE
PosIn(tuple, c) == CHOOSE i \in DOMAIN tuple : tuple[i] = c

\* unicode.IsSpace restricted to ASCII
IsSpace(c) == c \in {SP, TAB, LF, CR, "\f"}

ToLowerCh(c) == IF c \in Range(UpperLetters) THEN LowerLetters[PosIn(UpperLetters, c)] ELSE c
ToUpperCh(c) == IF c \in Range(LowerLetters) THEN UpperLetters[PosIn(LowerLetters, c)] ELSE c
\* strings.ToLower, strings.ToUpper
ToLower(s) == [i \in DOMAIN s |-> ToLowerCh(s[i])]
ToUpper(s) == [i \in DOMAIN s |-> ToUpperCh(s[i])]

\* s[from:] with a 1-based first index
Drop(s, from) == SubSeq(s, from, Len(s))
\* s[:to] with a 1-based last index
Take(s, to) == SubSeq(s, 1, to)

\* strings.Index: the 1-based position of the first occurrence of sub in s, 0 when there is none (Go: -1)
Index(s, sub) ==
    LET I == {i \in 1..(Len(s) - Len(sub) + 1) : SubSeq(s, i, i + Len(sub) - 1) = sub}
    IN IF I = {} THEN 0 ELSE Min(I)

\* strings.Contains
Contains(s, sub) == Index(s, sub) # 0

\* strings.HasPrefix
HasPrefix(s, p) == Len(s) >= Len(p) /\ SubSeq(s, 1, Len(p)) = p

\* strings.TrimSpace
TrimSpace(s) ==
    LET K == {i \in DOMAIN s : ~IsSpace(s[i])}
    IN IF K = {} THEN <<>>
       ELSE SubSeq(s, Min(K), CHOOSE j \in K : \A k \in K : k <= j)

\* strings.SplitN(s, " ", 3)
SplitN3(s) ==
    LET i1 == Index(s, <<SP>>)
    IN IF i1 = 0 THEN <<s>>
       ELSE LET rest == Drop(s, i1 + 1)
                i2 == Index(rest, <<SP>>)
            IN IF i2 = 0 THEN <<Take(s, i1 - 1), rest>>
               ELSE <<Take(s, i1 - 1), Take(rest, i2 - 1), Drop(rest, i2 + 1)>>

\* the number a string of digits of the given base denotes (digits already checked)
RECURSIVE DigitsValue(_, _, _)
DigitsValue(ds, base, acc) ==
    IF ds = <<>> THEN acc ELSE DigitsValue(Tail(ds), base, acc * base + Head(ds))

RECURSIVE StripZeros(_)
StripZeros(ds) == IF ds # <<>> /\ Head(ds) = 0 THEN StripZeros(Tail(ds)) ELSE ds

\* a size too large for any buffer to be filled from a stream of the model; it
\* stands for every value that does not fit the model's integers
HugeSize == 16 * 16 * 16 * 16 * 16 * 16 * 16

\* strconv.Atoi: [ok, val]; an optional sign, then decimal digits only; out of the
\* range of int64 is an error
Atoi(s) ==
    LET signed == s # <<>> /\ Head(s) \in {"+", "-"}
        body == IF signed THEN Tail(s) ELSE s
        neg == signed /\ Head(s) = "-"
        valid == body # <<>> /\ \A i \in DOMAIN body : body[i] \in Range(DecDigits)
        ds == IF valid THEN StripZeros([i \in DOMAIN body |-> PosIn(DecDigits, body[i]) - 1]) ELSE <<>>
        mag == IF Len(ds) <= 8 THEN DigitsValue(ds, 10, 0) ELSE HugeSize
    IN IF ~valid \/ Len(ds) > 18 THEN [ok |-> FALSE, val |-> 0]
       ELSE [ok |-> TRUE, val |-> IF neg THEN 0 - mag ELSE mag]

\* a chunk-size parser that reads the size as a decimal number
ParseHex_Decimal(s) == Atoi(s)

HexValue(c) ==
    IF c \in Range(DecDigits) THEN PosIn(DecDigits, c) - 1
    ELSE IF c \in Range(LowerLetters) THEN PosIn(LowerLetters, c) + 9
    ELSE IF c \in Range(UpperLetters) THEN PosIn(UpperLetters, c) + 9
    ELSE 99

\* strconv.ParseInt(s, 16, 64): [ok, val]; an optional sign, then hexadecimal
\* digits only (no 0x prefix, no underscore); out of the range of int64 is an error
ParseHex(s) ==
    LET signed == s # <<>> /\ Head(s) \in {"+", "-"}
        body == IF signed THEN Tail(s) ELSE s
        neg == signed /\ Head(s) = "-"
        valid == body # <<>> /\ \A i \in DOMAIN body : HexValue(body[i]) < 16
        ds == IF valid THEN StripZeros([i \in DOMAIN body |-> HexValue(body[i])]) ELSE <<>>
        tooBig == \/ Len(ds) > 16
                  \/ /\ Len(ds) = 16
                     /\ ds[1] >= 8
                     /\ ~(neg /\ ds[1] = 8 /\ \A i \in 2..16 : ds[i] = 0)
        mag == IF Len(ds) <= 6 THEN DigitsValue(ds, 16, 0) ELSE HugeSize
    IN IF ~valid \/ tooBig THEN [ok |-> FALSE, val |-> 0]
       ELSE [ok |-> TRUE, val |-> IF neg THEN 0 - mag ELSE mag]

RECURSIVE Flatten(_)
\* the concatenation of a sequence of byte strings
Flatten(ss) == IF ss = <<>> THEN <<>> ELSE Head(ss) \o Flatten(Tail(ss))

\* a Go map[string]string with key k set to v
SetHeader(h, k, v) == [x \in (DOMAIN h) \cup {k} |-> IF x = k THEN v ELSE h[x]]
NoHeaders == [x \in {} |-> <<>>]

----------------------------------------------------------------------------
(* Names and values the code spells out *)

sContentLength == <<"C", "o", "n", "t", "e", "n", "t", "-", "L", "e", "n", "g", "t", "h">>
sTransferEncoding == <<"T", "r", "a", "n", "s", "f", "e", "r", "-", "E", "n", "c", "o", "d", "i", "n", "g">>
sChunked == <<"c", "h", "u", "n", "k", "e", "d">>
sCRLF == <<CR, LF>>

----------------------------------------------------------------------------
(* net/url, for URLs without userinfo, IPv6 literal and percent escape *)

sHttp == <<"h", "t", "t", "p">>
sHttps == <<"h", "t", "t", "p", "s">>

\* strings.LastIndex for a single byte, 0 when there is none
LastIndexByte(s, c) ==
    LET I == {i \in DOMAIN s : s[i] = c}
    IN IF I = {} THEN 0 ELSE CHOOSE i \in I : \A j \in I : j <= i

IsLetter(c) == c \in Range(LowerLetters) \cup Range(UpperLetters)
IsDigit(c) == c \in Range(DecDigits)

\* url.getScheme: [err, scheme, rest]
getScheme(rawURL) ==
    LET stops == {i \in DOMAIN rawURL :
                     \/ ~IsLetter(rawURL[i]) /\ ~IsDigit(rawURL[i]) /\ rawURL[i] \notin {"+", "-", "."}
                     \/ i = 1 /\ ~IsLetter(rawURL[i])}
        i == IF stops = {} THEN 0 ELSE Min(stops)
    IN IF i = 0 \/ rawURL[i] # ":" THEN [err |-> FALSE, scheme |-> <<>>, rest |-> rawURL]
       ELSE IF i = 1 THEN [err |-> TRUE, scheme |-> <<>>, rest |-> <<>>]
       ELSE [err |-> FALSE, scheme |-> Take(rawURL, i - 1), rest |-> Drop(rawURL, i + 1)]

\* url.validOptionalPort
validOptionalPort(port) ==
    \/ port = <<>>
    \/ Head(port) = ":" /\ \A i \in 2..Len(port) : IsDigit(port[i])

\* url.shouldEscape(c, encodeHost)
shouldEscapeHost(c) ==
    /\ ~IsLetter(c)
    /\ ~IsDigit(c)
    /\ c \notin {"!", "$", "&", "'", "(", ")", "*", "+", ",", ";", "=", ":", "[", "]", "<", ">", "\"", "-", "_", ".", "~"}

\* url.parseHost: the host is valid
validHost(host) ==
    /\ LastIndexByte(host, ":") # 0 => validOptionalPort(Drop(host, LastIndexByte(host, ":")))
    /\ \A i \in DOMAIN host : ~shouldEscapeHost(host[i])

\* url.stringContainsCTLByte
stringContainsCTLByte(s) == \E i \in DOMAIN s : s[i] \in {TAB, LF, CR, "\f"}

InvalidURL == [ok |-> FALSE, Scheme |-> <<>>, Opaque |-> <<>>, Host |-> <<>>, Path |-> <<>>, RawPath |-> <<>>,
               RawQuery |-> <<>>, ForceQuery |-> FALSE, OmitHost |-> FALSE, Fragment |-> <<>>]

\* the grave accent, which a string of the module cannot hold
GRAVE == "grave"

\* the printable ASCII characters, from the space (32) to the tilde (126)
Printable == <<" ", "!", "\"", "#", "$", "%", "&", "'", "(", ")", "*", "+", ",", "-", ".", "/",
               "0", "1", "2", "3", "4", "5", "6", "7", "8", "9", ":", ";", "<", "=", ">", "?", "@",
               "A", "B", "C", "D", "E", "F", "G", "H", "I", "J", "K", "L", "M",
               "N", "O", "P", "Q", "R", "S", "T", "U", "V", "W", "X", "Y", "Z",
               "[", "\\", "]", "^", "_", GRAVE,
               "a", "b", "c", "d", "e", "f", "g", "h", "i", "j", "k", "l", "m",
               "n", "o", "p", "q", "r", "s", "t", "u", "v", "w", "x", "y", "z",
               "{", "|", "}", "~">>

\* the character with the given code: the printable ones, tab, line feed and
\* carriage return; "?" stands for every other byte
ByteChar(n) ==
    IF n - 31 \in DOMAIN Printable THEN Printable[n - 31]
    ELSE IF n = 9 THEN TAB ELSE IF n = 10 THEN LF ELSE IF n = 13 THEN CR ELSE "?"

\* the code of a character
CharByte(c) ==
    IF c \in Range(Printable) THEN PosIn(Printable, c) + 31
    ELSE IF c = TAB THEN 9 ELSE IF c = LF THEN 10 ELSE IF c = CR THEN 13 ELSE 63

RECURSIVE validEscapes(_)
\* url.unescape(s, encodePath), first pass: every % is followed by two
\* hexadecimal digits
validEscapes(s) ==
    IF s = <<>> THEN TRUE
    ELSE IF Head(s) # "%" THEN validEscapes(Tail(s))
    ELSE Len(s) >= 3 /\ HexValue(s[2]) < 16 /\ HexValue(s[3]) < 16 /\ validEscapes(Drop(s, 4))

RECURSIVE unescaped(_)
\* url.unescape(s, encodePath), second pass: every %XY becomes the byte it
\* denotes
unescaped(s) ==
    IF s = <<>> THEN <<>>
    ELSE IF Head(s) # "%" THEN <<Head(s)>> \o unescaped(Tail(s))
    ELSE <<ByteChar(16 * HexValue(s[2]) + HexValue(s[3]))>> \o unescaped(Drop(s, 4))

\* url.unescape(s, encodePath): [ok, s], ok = FALSE for a bad escape
unescapePath(s) ==
    IF validEscapes(s) THEN [ok |-> TRUE, s |-> unescaped(s)] ELSE [ok |-> FALSE, s |-> <<>>]

\* url.shouldEscape(c, encodePath)
shouldEscapePath(c) ==
    /\ ~IsLetter(c)
    /\ ~IsDigit(c)
    /\ c \notin {"-", "_", ".", "~", "$", "&", "+", ",", "/", ":", ";", "=", "@"}

\* the upper-case hexadecimal digits of url.escape
upperhex == <<"0", "1", "2", "3", "4", "5", "6", "7", "8", "9", "A", "B", "C", "D", "E", "F">>

\* url.escape(s, encodePath)
escapePath(s) ==
    Flatten([i \in DOMAIN s |->
        IF shouldEscapePath(s[i])
        THEN <<"%", upperhex[(CharByte(s[i]) \div 16) + 1], upperhex[(CharByte(s[i]) % 16) + 1]>>
        ELSE <<s[i]>>])

\* URL.setPath: Path is the unescaped path, RawPath the path as written when
\* that is not the default encoding of Path; u.ok = FALSE for a bad escape
setPath(u, p) ==
    With(unescapePath(p), LAMBDA path :
        IF ~path.ok THEN InvalidURL
        ELSE [u EXCEPT !.Path = path.s,
                       !.RawPath = IF escapePath(path.s) = p THEN <<>> ELSE p])

\* url.validEncoded(s, encodePath): no byte that has to be escaped, but for
\* the sub-delimiters, ":", "@", the brackets and the escapes themselves
validEncodedPath(s) ==
    \A i \in DOMAIN s :
        \/ s[i] \in {"!", "$", "&", "'", "(", ")", "*", "+", ",", ";", "=", ":", "@", "[", "]", "%"}
        \/ ~shouldEscapePath(s[i])

\* URL.EscapedPath
EscapedPath(u) ==
    IF u.RawPath # <<>> /\ validEncodedPath(u.RawPath) THEN u.RawPath ELSE escapePath(u.Path)

\* url.Parse: the URL record, ok = FALSE for a parse error
urlParse(rawURL) ==
    LET hash == Index(rawURL, <<"#">>)
        u == IF hash = 0 THEN rawURL ELSE Take(rawURL, hash - 1)
        frag == IF hash = 0 THEN <<>> ELSE Drop(rawURL, hash + 1)
        sch == getScheme(u)
        rest0 == sch.rest
        q == Index(rest0, <<"?">>)
        force == q # 0 /\ q = Len(rest0)
        rest1 == IF q = 0 THEN rest0 ELSE Take(rest0, q - 1)
        query == IF q = 0 THEN <<>> ELSE Drop(rest0, q + 1)
        slash1 == Index(rest1, <<"/">>)
        segment == IF slash1 = 0 THEN rest1 ELSE Take(rest1, slash1 - 1)
        hasAuthority == HasPrefix(rest1, <<"/", "/">>) /\ (sch.scheme # <<>> \/ ~HasPrefix(rest1, <<"/", "/", "/">>))
        afterSlashes == Drop(rest1, 3)
        slash2 == Index(afterSlashes, <<"/">>)
        authority == IF slash2 = 0 THEN afterSlashes ELSE Take(afterSlashes, slash2 - 1)
        path == IF ~hasAuthority THEN rest1
                ELSE IF slash2 = 0 THEN <<>> ELSE Drop(afterSlashes, slash2)
        base == [InvalidURL EXCEPT !.ok = TRUE, !.Scheme = ToLower(sch.scheme), !.RawQuery = query,
                                   !.ForceQuery = force, !.Fragment = frag]
    IN IF stringContainsCTLByte(u) \/ sch.err THEN InvalidURL
       ELSE IF u = <<"*">> THEN [InvalidURL EXCEPT !.ok = TRUE, !.Path = u, !.Fragment = frag]
       ELSE IF ~HasPrefix(rest1, <<"/">>) /\ sch.scheme # <<>> THEN [base EXCEPT !.Opaque = rest1]
       ELSE IF ~HasPrefix(rest1, <<"/">>) /\ Contains(segment, <<":">>) THEN InvalidURL
       ELSE IF hasAuthority
       THEN IF validHost(authority) THEN setPath([base EXCEPT !.Host = authority], path) ELSE InvalidURL
       ELSE setPath([base EXCEPT !.OmitHost = (sch.scheme # <<>> /\ HasPrefix(rest1, <<"/">>))], path)

\* URL.Hostname: the host without a valid port
Hostname(u) ==
    LET colon == LastIndexByte(u.Host, ":")
    IN IF colon # 0 /\ validOptionalPort(Drop(u.Host, colon)) THEN Take(u.Host, colon - 1) ELSE u.Host

\* URL.Port: the digits after the last colon of the host
Port(u) ==
    LET colon == LastIndexByte(u.Host, ":")
    IN IF colon # 0 /\ validOptionalPort(Drop(u.Host, colon)) THEN Drop(u.Host, colon + 1) ELSE <<>>

\* URL.String
urlString(u) ==
    LET scheme == IF u.Scheme # <<>> THEN u.Scheme \o <<":">> ELSE <<>>
        slashes == IF /\ u.Scheme # <<>> \/ u.Host # <<>>
                      /\ ~(u.OmitHost /\ u.Host = <<>>)
                      /\ u.Host # <<>> \/ u.Path # <<>>
                   THEN <<"/", "/">> \o u.Host ELSE <<>>
        sep == IF u.Path # <<>> /\ Head(u.Path) # "/" /\ u.Host # <<>> THEN <<"/">> ELSE <<>>
        hier == IF u.Opaque # <<>> THEN u.Opaque ELSE slashes \o sep \o EscapedPath(u)
        query == IF u.ForceQuery \/ u.RawQuery # <<>> THEN <<"?">> \o u.RawQuery ELSE <<>>
        frag == IF u.Fragment # <<>> THEN <<"#">> \o u.Fragment ELSE <<>>
    IN scheme \o hier \o query \o frag

----------------------------------------------------------------------------
(* validator.Validate *)

sHost == <<"H", "o", "s", "t">>
sContentType == <<"C", "o", "n", "t", "e", "n", "t", "-", "T", "y", "p", "e">>
sHTTP10 == <<"H", "T", "T", "P", "/", "1", ".", "0">>
sHTTP11 == <<"H", "T", "T", "P", "/", "1", ".", "1">>
sHTTP2 == <<"H", "T", "T", "P", "/", "2">>
sHTTP20 == <<"H", "T", "T", "P", "/", "2", ".", "0">>
sHTTP3 == <<"H", "T", "T", "P", "/", "3">>
sGET == <<"G", "E", "T">>
sPOST == <<"P", "O", "S", "T">>
sPUT == <<"P", "U", "T">>
sDELETE == <<"D", "E", "L", "E", "T", "E">>
sPATCH == <<"P", "A", "T", "C", "H">>
sHEAD == <<"H", "E", "A", "D">>
sOPTIONS == <<"O", "P", "T", "I", "O", "N", "S">>
sCONNECT == <<"C", "O", "N", "N", "E", "C", "T">>
sTRACE == <<"T", "R", "A", "C", "E">>

supportedHTTPVersions == {sHTTP10, sHTTP11, sHTTP2, sHTTP20, sHTTP3}
validMethods == {sGET, sPOST, sPUT, sDELETE, sPATCH, sHEAD, sOPTIONS, sCONNECT, sTRACE}
noBodyMethods == {sGET, sHEAD, sDELETE, sCONNECT, sTRACE}

RECURSIVE Itoa(_)
\* fmt.Sprintf("%d", n) for n >= 0
Itoa(n) == IF n < 10 THEN <<DecDigits[n + 1]>> ELSE Itoa(n \div 10) \o <<DecDigits[(n % 10) + 1]>>

\* models.HTTPRequest
HTTPRequest(method, url, version, headers, body) ==
    [Method |-> method, URL |-> url, Version |-> version, Headers |-> headers, Body |-> body]

\* the state of a validation: the request being corrected and the ValidationResult
AddError(st, msg) == [st EXCEPT !.Errors = Append(@, msg)]
AddWarning(st, msg) == [st EXCEPT !.Warnings = Append(@, msg)]

validateMethod(st) ==
    LET method == ToUpper(st.req.Method)
        st1 == [st EXCEPT !.req.Method = method]
    IN IF method \in validMethods THEN st1 ELSE AddWarning(st1, "Non-standard HTTP method")

\* a validateURL that leaves the scheme alone
checkParsedURL_KeepScheme(st, parsedURL, force) ==
    LET st2 == IF parsedURL.Scheme \notin {sHttp, sHttps} THEN AddWarning(st, "Non-standard URL scheme") ELSE st
    IN IF parsedURL.Host = <<>> THEN AddError(st2, "URL must include host") ELSE st2

\* validateURL from "Apply --no-secure flag" on; parsedURL has a scheme
checkParsedURL(st, parsedURL, force) ==
    LET st1 == IF force THEN [st EXCEPT !.req.URL = urlString([parsedURL EXCEPT !.Scheme = sHttp])] ELSE st
        scheme == IF force THEN sHttp ELSE parsedURL.Scheme
        st2 == IF scheme \notin {sHttp, sHttps} THEN AddWarning(st1, "Non-standard URL scheme") ELSE st1
    IN IF parsedURL.Host = <<>> THEN AddError(st2, "URL must include host") ELSE st2

validateURL(st, noSecureFlag) ==
    IF st.req.URL = <<>> THEN AddError(st, "URL is required")
    ELSE IF HasPrefix(st.req.URL, <<"/">>)
    THEN IF sHost \notin DOMAIN st.req.Headers
         THEN AddError(st, "Host header is required when URL is a path")
         ELSE [st EXCEPT !.req.URL = (IF noSecureFlag THEN sHttp ELSE sHttps)
                                         \o <<":", "/", "/">> \o st.req.Headers[sHost] \o st.req.URL]
    ELSE With(urlParse(st.req.URL), LAMBDA parsedURL :
            IF ~parsedURL.ok THEN AddError(st, "Invalid URL")
            ELSE IF parsedURL.Scheme = <<>> THEN AddError(st, "URL must include scheme")
            ELSE checkParsedURL(st, parsedURL, noSecureFlag /\ parsedURL.Scheme = sHttps))

validateVersion(st) ==
    IF st.req.Version \in supportedHTTPVersions THEN st
    ELSE AddWarning(st, "Non-standard HTTP version")

\* one warning for each header name that repeats, ignoring case, a name met
\* earlier in the iteration over the map
DuplicateHeaderWarnings(h) ==
    Cardinality(DOMAIN h) - Cardinality({ToLower(k) : k \in DOMAIN h})

RECURSIVE AddWarnings(_, _, _)
AddWarnings(st, msg, n) == IF n = 0 THEN st ELSE AddWarnings(AddWarning(st, msg), msg, n - 1)

\* the Host check of validateHeaders
addMissingHost(st) ==
    IF st.req.Version = sHTTP11 /\ sHost \notin DOMAIN st.req.Headers
    THEN With(urlParse(st.req.URL), LAMBDA parsedURL :
            IF parsedURL.ok /\ parsedURL.Host # <<>>
            THEN AddWarning([st EXCEPT !.req.Headers = SetHeader(@, sHost, parsedURL.Host)],
                            "Added missing Host header")
            ELSE AddError(st, "Host header is required for HTTP/1.1"))
    ELSE st

validateHeaders(st) ==
    With(addMissingHost(st), LAMBDA st1 :
        AddWarnings(st1, "Duplicate header (case-insensitive)", DuplicateHeaderWarnings(st1.req.Headers)))

\* a validator that leaves the headers of a request with a body alone
validateBody_NoLength(st) == st

validateBody(st) ==
    LET hasBody == st.req.Body # <<>>
        st1 == IF hasBody /\ st.req.Method \in noBodyMethods
               THEN AddWarning(st, "requests typically should not have a body") ELSE st
        st2 == IF hasBody /\ sContentLength \notin DOMAIN st1.req.Headers
               THEN AddWarning([st1 EXCEPT !.req.Headers = SetHeader(@, sContentLength, Itoa(Len(st1.req.Body)))],
                               "Added missing Content-Length header")
               ELSE st1
    IN IF hasBody /\ sContentType \notin DOMAIN st2.req.Headers
       THEN AddWarning(st2, "Content-Type header is recommended when sending a body")
       ELSE st2

\* validator.Validate: the request as corrected, the errors and the warnings
Validate(r, noSecureFlag) ==
    With(validateMethod([req |-> r, Errors |-> <<>>, Warnings |-> <<>>]), LAMBDA s1 :
    With(validateURL(s1, noSecureFlag), LAMBDA s2 :
    With(validateVersion(s2), LAMBDA s3 :
    With(validateHeaders(s3), LAMBDA s4 :
        validateBody(s4)))))

\* a main that takes no result for a failed validation
HasErrors_Never(res) == FALSE

\* ValidationResult.HasErrors
HasErrors(res) == Len(res.Errors) > 0
\* ValidationResult.HasWarnings
HasWarnings(res) == Len(res.Warnings) > 0

----------------------------------------------------------------------------
(* parser.Parse *)

RECURSIVE Split(_, _)
\* strings.Split(s, sep) for a one-byte separator
Split(s, c) ==
    LET i == Index(s, <<c>>)
    IN IF i = 0 THEN <<s>> ELSE <<Take(s, i - 1)>> \o Split(Drop(s, i + 1), c)

RECURSIVE Join(_, _)
\* strings.Join(lines, sep)
Join(lines, sep) ==
    IF lines = <<>> THEN <<>>
    ELSE IF Len(lines) = 1 THEN lines[1]
    ELSE lines[1] \o sep \o Join(Tail(lines), sep)

RECURSIVE Fields(_)
\* strings.Fields: the maximal runs of bytes that are not white space
Fields(s) ==
    LET K == {i \in DOMAIN s : ~IsSpace(s[i])}
        first == Min(K)
        E == {i \in first..Len(s) : IsSpace(s[i])}
        stop == IF E = {} THEN Len(s) + 1 ELSE Min(E)
    IN IF K = {} THEN <<>>
       ELSE <<SubSeq(s, first, stop - 1)>> \o Fields(Drop(s, stop))

\* the lines bufio.Scanner yields with ScanLines: split at line feeds, one
\* trailing carriage return dropped from each line, no empty line after a final
\* line feed, none at all for empty content
ScanLines(content) ==
    LET raw == Split(content, LF)
        kept == IF content = <<>> THEN <<>>
                ELSE IF raw[Len(raw)] = <<>> THEN Take(raw, Len(raw) - 1) ELSE raw
        dropCR(l) == IF l # <<>> /\ l[Len(l)] = CR THEN Take(l, Len(l) - 1) ELSE l
    IN [i \in DOMAIN kept |-> dropCR(kept[i])]

\* the process environment: os.Getenv gives the empty string for any other name
sTOKEN == <<"T", "O", "K">>
sSecret == <<"a", "b", "c", "1", "2", "3">>
sLOOP == <<"L", "O", "O", "P">>
sCMD == <<"C", "M", "D">>
sREF == <<"R", "E", "F">>
sNL == <<"N", "L">>
\* values that hold markers of the preprocessor, and one that holds a line feed
vSelf == <<"$", "{", "L", "O", "O", "P", "}">>
vCommand == <<"$", "(", "e", "c", "h", "o", SP, "h", "i", ")">>
vDollarName == <<"$", "T", "O", "K">>
vTwoLines == <<"1", LF, "E", "v", "i", "l", ":", SP, "2">>
Environ ==
    (sTOKEN :> sSecret) @@ (sLOOP :> vSelf) @@ (sCMD :> vCommand) @@ (sREF :> vDollarName) @@ (sNL :> vTwoLines)
Getenv(name) == IF name \in DOMAIN Environ THEN Environ[name] ELSE <<>>

\* the commands a template may run, with their standard output; any other
\* command fails to run
sEcho == <<"e", "c", "h", "o", SP, "h", "i">>
sExitError == <<"[", "e", "r", "r", "o", "r", ":", SP, "e", "x", "i", "t", SP, "s", "t", "a", "t", "u", "s", SP, "1", "]">>
\* cat f prints a file that holds the marker $(cat f), cat g one with a blank
\* line in it
sCatF == <<"c", "a", "t", SP, "f">>
sCatG == <<"c", "a", "t", SP, "g">>
vCatF == <<"$", "(", "c", "a", "t", SP, "f", ")", LF>>
vCatG == <<"1", LF, LF, "E", "v", "i", "l", ":", SP, "2", LF>>
CommandOutput == (sEcho :> <<"h", "i", LF>>) @@ (sCatF :> vCatF) @@ (sCatG :> vCatG)

\* a runCommand that gives no text for a command that fails
runCommand_Silent(command) ==
    IF command \in DOMAIN CommandOutput THEN TrimSpace(CommandOutput[command]) ELSE <<>>

\* parser.runCommand
runCommand(command) ==
    IF command \in DOMAIN CommandOutput THEN TrimSpace(CommandOutput[command]) ELSE sExitError

\* the number of substitutions one loop of the preprocessor is followed for
MaxSubst == 4

RECURSIVE expandBraces(_, _)
\* the first loop of expandEnvVars: ${NAME}, rescanned from the start of the
\* line after every substitution
expandBraces(line, fuel) ==
    LET start == Index(line, <<"$", "{">>)
        end == IF start = 0 THEN 0 ELSE Index(Drop(line, start), <<"}">>)
        stop == end + start - 1
        varName == SubSeq(line, start + 2, stop - 1)
    IN IF start = 0 \/ end = 0 \/ fuel = 0 THEN line
       ELSE expandBraces(Take(line, start - 1) \o Getenv(varName) \o Drop(line, stop + 1), fuel - 1)

\* parser.isAlphaNum, or an underscore
IsNameByte(b) == IsLetter(b) \/ IsDigit(b) \/ b = "_"

\* the second loop of expandEnvVars: $NAME in each part after a dollar sign
expandPart(part) ==
    LET N == {i \in DOMAIN part : ~IsNameByte(part[i])}
        varEnd == IF N = {} THEN Len(part) ELSE Min(N) - 1
    IN IF varEnd > 0 THEN Getenv(Take(part, varEnd)) \o Drop(part, varEnd + 1)
       ELSE <<"$">> \o part

\* parser.expandEnvVars
expandEnvVars(line) ==
    LET braced == expandBraces(line, MaxSubst)
        parts == Split(braced, "$")
    IN Flatten([i \in DOMAIN parts |-> IF i = 1 THEN parts[i] ELSE expandPart(parts[i])])

RECURSIVE executeShellLoop(_, _)
\* parser.executeShellCommands: $(command), rescanned from the start of the
\* line after every substitution
executeShellLoop(line, fuel) ==
    LET start == Index(line, <<"$", "(">>)
        end == IF start = 0 THEN 0 ELSE Index(Drop(line, start), <<")">>)
        stop == end + start - 1
        command == SubSeq(line, start + 2, stop - 1)
    IN IF start = 0 \/ end = 0 \/ fuel = 0 THEN line
       ELSE executeShellLoop(Take(line, start - 1) \o runCommand(command) \o Drop(line, stop + 1), fuel - 1)

executeShellCommands(line) == executeShellLoop(line, MaxSubst)

RECURSIVE bracesRepeat(_, _, _)
\* the first loop of expandEnvVars comes back to a line it has had before: it
\* never ends
bracesRepeat(line, seen, fuel) ==
    LET start == Index(line, <<"$", "{">>)
        end == IF start = 0 THEN 0 ELSE Index(Drop(line, start), <<"}">>)
        stop == end + start - 1
        varName == SubSeq(line, start + 2, stop - 1)
    IN IF start = 0 \/ end = 0 THEN FALSE
       ELSE \E next \in {Take(line, start - 1) \o Getenv(varName) \o Drop(line, stop + 1)} :
               \/ next \in seen \cup {line}
               \/ fuel > 0 /\ bracesRepeat(next, seen \cup {line}, fuel - 1)

RECURSIVE shellRepeat(_, _, _)
\* the loop of executeShellCommands comes back to a line it has had before
shellRepeat(line, seen, fuel) ==
    LET start == Index(line, <<"$", "(">>)
        end == IF start = 0 THEN 0 ELSE Index(Drop(line, start), <<")">>)
        stop == end + start - 1
        command == SubSeq(line, start + 2, stop - 1)
    IN IF start = 0 \/ end = 0 THEN FALSE
       ELSE \E next \in {Take(line, start - 1) \o runCommand(command) \o Drop(line, stop + 1)} :
               \/ next \in seen \cup {line}
               \/ fuel > 0 /\ shellRepeat(next, seen \cup {line}, fuel - 1)

\* a comment test that knows the number sign only
IsComment_HashOnly(line) == HasPrefix(TrimSpace(line), <<"#">>)

\* the line is a comment: its trimmed text starts with # or //
IsComment(line) ==
    HasPrefix(TrimSpace(line), <<"#">>) \/ HasPrefix(TrimSpace(line), <<"/", "/">>)

RECURSIVE SelectLines(_)
\* the lines that are no comment, in order
SelectLines(lines) ==
    IF lines = <<>> THEN <<>>
    ELSE IF IsComment(Head(lines)) THEN SelectLines(Tail(lines))
    ELSE <<Head(lines)>> \o SelectLines(Tail(lines))

\* a preprocess that ends its text with a line feed
preprocess_TrailingLF(content) ==
    LET lines == SelectLines(ScanLines(content))
    IN Join([i \in DOMAIN lines |-> executeShellCommands(expandEnvVars(lines[i]))], <<LF>>) \o <<LF>>

\* parser.preprocess
preprocess(content) ==
    LET lines == SelectLines(ScanLines(content))
    IN Join([i \in DOMAIN lines |-> executeShellCommands(expandEnvVars(lines[i]))], <<LF>>)

NoRequest == [Method |-> <<>>, URL |-> <<>>, Version |-> <<>>, Headers |-> NoHeaders, Body |-> <<>>]

RECURSIVE parseHeaders(_, _, _)
\* the header loop of parseHTTP from line i on: [err, headers, next], next being
\* the index of the first line of the body
parseHeaders(lines, i, headers) ==
    LET line == TrimSpace(lines[i])
        colonIdx == Index(line, <<":">>)
    IN IF i > Len(lines) THEN [err |-> FALSE, headers |-> headers, next |-> i]
       ELSE IF line = <<>> THEN [err |-> FALSE, headers |-> headers, next |-> i + 1]
       ELSE IF colonIdx = 0 THEN [err |-> TRUE, headers |-> headers, next |-> i]
       ELSE parseHeaders(lines, i + 1,
                SetHeader(headers, TrimSpace(Take(line, colonIdx - 1)), TrimSpace(Drop(line, colonIdx + 1))))

\* a parseHTTP that returns, for a header line without a colon, the request
\* as far as it was filled
parseHTTP_Partial(content) ==
    LET lines == Split(content, LF)
        NonBlank == {i \in DOMAIN lines : TrimSpace(lines[i]) # <<>>}
        requestLineIdx == Min(NonBlank)
        parts == Fields(TrimSpace(lines[requestLineIdx]))
        hs == parseHeaders(lines, requestLineIdx + 1, NoHeaders)
        body == IF hs.next <= Len(lines) THEN TrimSpace(Join(Drop(lines, hs.next), <<LF>>)) ELSE <<>>
    IN IF NonBlank = {} THEN [err |-> "no request line found", req |-> NoRequest]
       ELSE IF Len(parts) < 2 THEN [err |-> "invalid request line", req |-> NoRequest]
       ELSE IF hs.err THEN [err |-> "invalid header",
                            req |-> HTTPRequest(parts[1], parts[2], IF Len(parts) >= 3 THEN parts[3] ELSE sHTTP11,
                                                hs.headers, <<>>)]
       ELSE [err |-> "nil",
             req |-> HTTPRequest(parts[1], parts[2], IF Len(parts) >= 3 THEN parts[3] ELSE sHTTP11,
                                 hs.headers, body)]

\* parser.parseHTTP: [err, req]; no request comes with an error
parseHTTP(content) ==
    LET lines == Split(content, LF)
        NonBlank == {i \in DOMAIN lines : TrimSpace(lines[i]) # <<>>}
        requestLineIdx == Min(NonBlank)
        parts == Fields(TrimSpace(lines[requestLineIdx]))
        hs == parseHeaders(lines, requestLineIdx + 1, NoHeaders)
        body == IF hs.next <= Len(lines) THEN TrimSpace(Join(Drop(lines, hs.next), <<LF>>)) ELSE <<>>
    IN IF NonBlank = {} THEN [err |-> "no request line found", req |-> NoRequest]
       ELSE IF Len(parts) < 2 THEN [err |-> "invalid request line", req |-> NoRequest]
       ELSE IF hs.err THEN [err |-> "invalid header", req |-> NoRequest]
       ELSE [err |-> "nil",
             req |-> HTTPRequest(parts[1], parts[2], IF Len(parts) >= 3 THEN parts[3] ELSE sHTTP11,
                                 hs.headers, body)]

\* a Parse that preprocesses every input
Parse_Always(content) == parseHTTP(preprocess(content))

\* parser.Parse: content with a CR LF pair is parsed as it is, any other
\* content is preprocessed first
Parse(content) ==
    IF Contains(content, sCRLF) THEN parseHTTP(content) ELSE parseHTTP(preprocess(content))

\* parser.Parse never returns: one of the two loops of the preprocessor never
\* ends on one of the lines
ParseNeverReturns(content) ==
    /\ ~Contains(content, sCRLF)
    /\ \E line \in Range(SelectLines(ScanLines(content))) :
          \/ bracesRepeat(line, {}, MaxSubst)
          \/ shellRepeat(expandEnvVars(line), {}, MaxSubst)

\* parser.ParseRFCCompliant
ParseRFCCompliant(content) == parseHTTP(content)

RECURSIVE braceLookups(_, _)
\* the names the first loop of expandEnvVars gives to os.Getenv, in order
braceLookups(line, fuel) ==
    LET start == Index(line, <<"$", "{">>)
        end == IF start = 0 THEN 0 ELSE Index(Drop(line, start), <<"}">>)
        stop == end + start - 1
        varName == SubSeq(line, start + 2, stop - 1)
    IN IF start = 0 \/ end = 0 \/ fuel = 0 THEN <<>>
       ELSE <<varName>> \o braceLookups(Take(line, start - 1) \o Getenv(varName) \o Drop(line, stop + 1), fuel - 1)

\* the name the second loop of expandEnvVars looks up for a part, if any
partLookups(part) ==
    LET N == {i \in DOMAIN part : ~IsNameByte(part[i])}
        varEnd == IF N = {} THEN Len(part) ELSE Min(N) - 1
    IN IF varEnd > 0 THEN <<Take(part, varEnd)>> ELSE <<>>

\* the names expandEnvVars gives to os.Getenv, in order
envLookups(line) ==
    LET parts == Split(expandBraces(line, MaxSubst), "$")
    IN braceLookups(line, MaxSubst)
           \o Flatten([i \in DOMAIN parts |-> IF i = 1 THEN <<>> ELSE partLookups(parts[i])])

RECURSIVE shellCommands(_, _)
\* the commands executeShellCommands gives to runCommand, in order
shellCommands(line, fuel) ==
    LET start == Index(line, <<"$", "(">>)
        end == IF start = 0 THEN 0 ELSE Index(Drop(line, start), <<")">>)
        stop == end + start - 1
        command == SubSeq(line, start + 2, stop - 1)
    IN IF start = 0 \/ end = 0 \/ fuel = 0 THEN <<>>
       ELSE <<command>> \o shellCommands(Take(line, start - 1) \o runCommand(command) \o Drop(line, stop + 1), fuel - 1)

\* nothing was parsed: no preprocessor run, no lookup, no command; err and req
\* are what the parser returned
NotParsed == [done |-> FALSE, preprocessed |-> FALSE, lines |-> <<>>, lookups |-> <<>>, commands |-> <<>>,
              err |-> "nil", req |-> NoRequest]

\* what parser.preprocess does besides computing its result: the lines it
\* emits, the environment lookups and the commands, all in order
preprocessEffects(content) ==
    LET kept == SelectLines(ScanLines(content))
    IN [NotParsed EXCEPT
          !.preprocessed = TRUE,
          !.lines = [i \in DOMAIN kept |-> executeShellCommands(expandEnvVars(kept[i]))],
          !.lookups = Flatten([i \in DOMAIN kept |-> envLookups(kept[i])]),
          !.commands = Flatten([i \in DOMAIN kept |-> shellCommands(expandEnvVars(kept[i]), MaxSubst)])]

\* what parser.Parse does besides computing its result
ParseEffects(content) ==
    IF Contains(content, sCRLF) THEN NotParsed ELSE preprocessEffects(content)

----------------------------------------------------------------------------
(* client.readResponse and client.readChunkedBody *)

\* bufio.Reader.ReadString('\n') at position pos: the bytes up to and including
\* the next line feed; without one, everything that is left and the error
ReadString(s, pos) ==
    LET I == {i \in (pos + 1)..Len(s) : s[i] = LF}
    IN IF I = {} THEN [ok |-> FALSE, line |-> SubSeq(s, pos + 1, Len(s)), next |-> Len(s)]
       ELSE [ok |-> TRUE, line |-> SubSeq(s, pos + 1, Min(I)), next |-> Min(I)]

\* io.ReadFull(reader, buf) with len(buf) = n at position pos
ReadFull(s, pos, n) ==
    IF pos + n > Len(s) THEN [ok |-> FALSE, data |-> SubSeq(s, pos + 1, Len(s)), next |-> Len(s)]
    ELSE [ok |-> TRUE, data |-> SubSeq(s, pos + 1, pos + n), next |-> pos + n]

EmptyResponse == [Version |-> <<>>, StatusCode |-> 0, Status |-> <<>>, Headers |-> NoHeaders, Body |-> <<>>]

\* return nil, fmt.Errorf(msg): no Response
ReturnErr(msg) ==
    /\ rout' = "err"
    /\ rerr' = msg
    /\ rpc' = "done"

\* return resp, nil
ReturnResp(body) ==
    /\ rout' = "resp"
    /\ rerr' = "nil"
    /\ resp' = [resp EXCEPT !.Body = body]
    /\ rpc' = "done"

\* the status line: read one line, split it into at most three fields
ReadStatusLine ==
    /\ rpc = "status"
    /\ LET r == ReadString(stream, rpos)
           statusLine == TrimSpace(r.line)
           parts == SplitN3(statusLine)
       IN /\ rpos' = r.next
          /\ IF ~r.ok
             THEN /\ ioErr' = endMode
                  /\ ReturnErr("failed to read status line")
                  /\ UNCHANGED resp
             ELSE /\ UNCHANGED ioErr
                  /\ IF Len(parts) < 2
                     THEN ReturnErr("invalid status line") /\ UNCHANGED resp
                     ELSE IF ~Atoi(parts[2]).ok
                     THEN ReturnErr("invalid status code") /\ UNCHANGED resp
                     ELSE /\ resp' = [resp EXCEPT !.Version = parts[1],
                                                  !.StatusCode = Atoi(parts[2]).val,
                                                  !.Status = IF Len(parts) >= 3 THEN parts[3] ELSE <<>>]
                          /\ rpc' = "headers"
                          /\ UNCHANGED <<rout, rerr>>
    /\ UNCHANGED <<stream, endMode, ghost, sb, framing, bodyStart, sizeLines>>
    /\ UNCHANGED <<mainVars, sendVars, serverVars>>

\* one iteration of the header loop
ReadHeaderLine ==
    /\ rpc = "headers"
    /\ LET r == ReadString(stream, rpos)
           line == TrimSpace(r.line)
           colonIdx == Index(line, <<":">>)
       IN /\ rpos' = r.next
          /\ IF ~r.ok
             THEN /\ ioErr' = endMode
                  /\ ReturnErr("failed to read headers")
                  /\ UNCHANGED <<resp, bodyStart>>
             ELSE /\ UNCHANGED <<ioErr, rout, rerr>>
                  /\ IF line = <<>>
                     THEN /\ rpc' = "body"
                          /\ bodyStart' = r.next
                          /\ UNCHANGED resp
                     ELSE IF colonIdx = 0
                     THEN UNCHANGED <<rpc, resp, bodyStart>>
                     ELSE /\ resp' = [resp EXCEPT !.Headers =
                                        SetHeader(@, TrimSpace(Take(line, colonIdx - 1)),
                                                     TrimSpace(Drop(line, colonIdx + 1)))]
                          /\ UNCHANGED <<rpc, bodyStart>>
    /\ UNCHANGED <<stream, endMode, ghost, sb, framing, sizeLines>>
    /\ UNCHANGED <<mainVars, sendVars, serverVars>>

\* hasTE && strings.Contains(strings.ToLower(transferEncoding), "chunked")
UseChunked(h) ==
    /\ sTransferEncoding \in DOMAIN h
    /\ Contains(ToLower(h[sTransferEncoding]), sChunked)

\* a readResponse that lets chunked encoding win over Content-Length
UseContentLength_UnlessChunked(h) ==
    /\ sContentLength \in DOMAIN h
    /\ Atoi(h[sContentLength]).ok
    /\ Atoi(h[sContentLength]).val > 0
    /\ ~UseChunked(h)

\* hasContentLength && err == nil && contentLength > 0
UseContentLength(h) ==
    /\ sContentLength \in DOMAIN h
    /\ Atoi(h[sContentLength]).ok
    /\ Atoi(h[sContentLength]).val > 0

\* make([]byte, n) for a length no stream of the model can fill: the allocation
\* aborts the process, or it succeeds and the read that fills it fails
MakeHuge(msg) ==
    \/ /\ rout' = "panic"
       /\ rerr' = "makeslice"
       /\ rpc' = "done"
       /\ UNCHANGED <<rpos, ioErr>>
    \/ /\ rpos' = Len(stream)
       /\ ioErr' = endMode
       /\ ReturnErr(msg)

\* the body of a response with a usable Content-Length
ReadBodyContentLength ==
    /\ rpc = "body"
    /\ UseContentLength(resp.Headers)
    /\ framing' = "cl"
    /\ LET contentLength == Atoi(resp.Headers[sContentLength]).val
           r == ReadFull(stream, rpos, contentLength)
       IN IF contentLength >= HugeSize
          THEN MakeHuge("failed to read body") /\ UNCHANGED resp
          ELSE /\ rpos' = r.next
               /\ IF ~r.ok
                  THEN /\ ioErr' = endMode
                       /\ ReturnErr("failed to read body")
                       /\ UNCHANGED resp
                  ELSE /\ UNCHANGED ioErr
                       /\ ReturnResp(r.data)
    /\ UNCHANGED <<stream, endMode, ghost, sb, bodyStart, sizeLines>>
    /\ UNCHANGED <<mainVars, sendVars, serverVars>>

\* the call of readChunkedBody
EnterChunkedBody ==
    /\ rpc = "body"
    /\ ~UseContentLength(resp.Headers)
    /\ UseChunked(resp.Headers)
    /\ framing' = "chunked"
    /\ sb' = <<>>
    /\ rpc' = "chunk"
    /\ UNCHANGED <<stream, endMode, ghost, rpos, resp, bodyStart, ioErr, sizeLines, rout, rerr>>
    /\ UNCHANGED <<mainVars, sendVars, serverVars>>

\* one iteration of the loop of readChunkedBody
ReadChunk ==
    /\ rpc = "chunk"
    /\ LET r == ReadString(stream, rpos)
           sizeLine == TrimSpace(r.line)
           size == ParseHex(sizeLine)
           chunkSize == size.val
           last == ReadString(stream, r.next)
           chunk == ReadFull(stream, r.next, chunkSize)
           crlf == ReadString(stream, chunk.next)
           ioFail(at) == /\ rpos' = at
                         /\ ioErr' = endMode
                         /\ ReturnErr("failed to read chunked body")
                         /\ UNCHANGED <<resp, sb>>
       IN /\ sizeLines' = IF r.ok THEN Append(sizeLines, sizeLine) ELSE sizeLines
          /\ IF ~r.ok THEN ioFail(r.next)
             ELSE IF ~size.ok
             THEN /\ rpos' = r.next
                  /\ ReturnErr("failed to read chunked body: invalid chunk size")
                  /\ UNCHANGED <<resp, sb, ioErr>>
             ELSE IF chunkSize = 0
             THEN IF ~last.ok THEN ioFail(last.next)
                  ELSE /\ rpos' = last.next
                       /\ ReturnResp(sb)
                       /\ UNCHANGED <<sb, ioErr>>
             ELSE IF chunkSize < 0
             THEN /\ rout' = "panic"
                  /\ rerr' = "makeslice"
                  /\ rpc' = "done"
                  /\ rpos' = r.next
                  /\ UNCHANGED <<resp, sb, ioErr>>
             ELSE IF chunkSize >= HugeSize
             THEN MakeHuge("failed to read chunked body") /\ UNCHANGED <<resp, sb>>
             ELSE IF ~chunk.ok THEN ioFail(chunk.next)
             ELSE IF ~crlf.ok THEN ioFail(crlf.next)
             ELSE /\ rpos' = crlf.next
                  /\ sb' = sb \o chunk.data
                  /\ UNCHANGED <<rpc, resp, ioErr, rout, rerr>>
    /\ UNCHANGED <<stream, endMode, ghost, framing, bodyStart>>
    /\ UNCHANGED <<mainVars, sendVars, serverVars>>

\* the loop that reads until a read returns an error, whichever error it is
ReadUntilClose ==
    /\ rpc = "body"
    /\ ~UseContentLength(resp.Headers)
    /\ ~UseChunked(resp.Headers)
    /\ framing' = "close"
    /\ rpos' = Len(stream)
    /\ ioErr' = endMode
    /\ ReturnResp(SubSeq(stream, rpos + 1, Len(stream)))
    /\ UNCHANGED <<stream, endMode, ghost, sb, bodyStart, sizeLines>>
    /\ UNCHANGED <<mainVars, sendVars, serverVars>>

readResponse ==
    \/ ReadStatusLine
    \/ ReadHeaderLine
    \/ ReadBodyContentLength
    \/ EnterChunkedBody
    \/ ReadChunk
    \/ ReadUntilClose

----------------------------------------------------------------------------
(* The response streams readResponse is run on *)

HexLower == <<"0","1","2","3","4","5","6","7","8","9","a","b","c","d","e","f">>
HexUpper == <<"0","1","2","3","4","5","6","7","8","9","A","B","C","D","E","F">>

RECURSIVE ToHex(_, _)
\* n > 0 written in hexadecimal with the given digits
ToHex(n, digits) == IF n = 0 THEN <<>> ELSE ToHex(n \div 16, digits) \o <<digits[(n % 16) + 1]>>

\* the size line of a chunk of n bytes: lower-case digits, or upper-case digits
\* after a leading zero
SizeText(n, style) == IF style = "lower" THEN ToHex(n, HexLower) ELSE <<"0">> \o ToHex(n, HexUpper)

\* a well-formed chunked body: each payload after its size line, then the
\* zero-size chunk and the line after it
EncodeChunks(chunks, style) ==
    Flatten([i \in DOMAIN chunks |-> SizeText(Len(chunks[i]), style) \o sCRLF \o chunks[i] \o sCRLF])
        \o <<"0">> \o sCRLF \o sCRLF

\* the chunks alone, without the zero-size chunk that ends the body
GoodChunks(chunks) ==
    Flatten([i \in DOMAIN chunks |-> SizeText(Len(chunks[i]), "lower") \o sCRLF \o chunks[i] \o sCRLF])

sWiki == <<"W", "i", "k", "i">>
sPedia == <<"p", "e", "d", "i", "a">>
sWikipedia == <<"W", "i", "k", "i", "p", "e", "d", "i", "a">>
sTenBytes == <<"0", "1", "2", "3", "4", "5", "6", "7", "8", "9">>
sSeventeenBytes == sTenBytes \o <<"a", "b", "c", LF, "e", "f", "g">>

\* payload bytes: a letter that is a hex digit, and a line feed
ChunkAlphabet == {"a", LF}
Payloads == UNION {[1..n -> ChunkAlphabet] : n \in 1..MaxChunkLen}
ChunkLists ==
    UNION {[1..n -> Payloads] : n \in 0..MaxChunks}
        \cup {<<sWiki, sPedia>>, <<sTenBytes>>, <<sSeventeenBytes, <<"a">>>>}

sOK == <<"O", "K">>
sNotFound == <<"N", "o", "t", " ", "F", "o", "u", "n", "d">>
sGzip == <<"g", "z", "i", "p">>
sGzipChunked == <<"g", "z", "i", "p", ",", " ", "C", "h", "u", "n", "k", "e", "d">>
sGarbageLine == <<"g", "a", "r", "b", "a", "g", "e", " ", "l", "i", "n", "e">> \o sCRLF
sHugeNumber == <<"9", "9", "9", "9", "9", "9", "9", "9", "9", "9", "9", "9", "9", "9">>

StatusLineText(version, rest) == version \o rest \o sCRLF
HeaderLineText(name, value) == name \o <<":", SP>> \o value \o sCRLF
\* the head of a response: status line, header lines, blank line
HeadText(statusLine, headerLines) == statusLine \o Flatten(headerLines) \o sCRLF

sStatusOK == StatusLineText(sHTTP11, <<SP, "2", "0", "0", SP>> \o sOK)
hCL(v) == HeaderLineText(sContentLength, v)
hTE(v) == HeaderLineText(sTransferEncoding, v)

\* heads whose body readResponse chunk-decodes
ChunkedHeads == {
    HeadText(sStatusOK, <<hTE(sChunked)>>),
    HeadText(sStatusOK, <<hTE(sGzipChunked)>>),
    HeadText(sStatusOK, <<hCL(<<"0">>), hTE(sChunked)>>),
    HeadText(sStatusOK, <<hCL(<<"-", "3">>), hTE(sChunked)>>) }

\* heads with a usable Content-Length
LengthHeads == {
    HeadText(sStatusOK, <<hCL(<<"3">>)>>),
    HeadText(sStatusOK, <<hCL(<<"3">>), hTE(sChunked)>>),
    HeadText(sStatusOK, <<hTE(sChunked), hCL(<<"3">>)>>),
    HeadText(sStatusOK, <<hCL(<<"+", "3">>)>>),
    HeadText(sStatusOK, <<sGarbageLine, hCL(<<"3">>)>>),
    HeadText(StatusLineText(sHTTP11, <<SP, "4", "0", "4", SP>> \o sNotFound), <<hCL(<<"3">>)>>),
    HeadText(sStatusOK, <<hCL(sHugeNumber)>>) }

\* heads with neither: the body runs until the connection ends
CloseHeads == {
    HeadText(StatusLineText(sHTTP10, <<SP, "2", "0", "0", SP>> \o sOK), <<>>),
    HeadText(StatusLineText(sHTTP11, <<SP, "2", "0", "4">>), <<>>),
    HeadText(sStatusOK, <<hCL(<<"0">>)>>),
    HeadText(sStatusOK, <<hCL(<<"3", "x">>)>>),
    HeadText(sStatusOK, <<HeaderLineText(ToLower(sContentLength), <<"3">>)>>),
    HeadText(sStatusOK, <<HeaderLineText(ToLower(sTransferEncoding), sChunked)>>),
    HeadText(sStatusOK, <<hTE(sGzip)>>) }

\* heads with a status line readResponse rejects
BadStatusHeads == {
    HeadText(StatusLineText(sHTTP11, <<>>), <<>>),
    HeadText(StatusLineText(sHTTP11, <<SP, "2", "x", "0", SP>> \o sOK), <<>>),
    HeadText(StatusLineText(sHTTP11, <<SP, SP, "2", "0", "0">>), <<>>) }

PlainBodies == {<<>>, <<"a", "b", "c">>, <<"a", "b", "c", LF, "e">>}

\* chunk-size lines that are no non-negative hexadecimal number
BadSizeLines == {
    <<>>,
    <<SP>>,
    <<"g">>,
    <<"4", ";", "x", "=", "1">>,
    <<"0", "x", "4">>,
    <<"4", SP, "4">>,
    <<"-", "1">>,
    <<"-", "0">>,
    <<"1", "0", "0", "0", "0", "0", "0", "0", "0", "0", "0", "0", "0", "0", "0", "0", "0">>,
    <<"8", "0", "0", "0", "0", "0", "0", "0", "0", "0", "0", "0", "0", "0", "0", "0">> }

\* chunk-size lines that are a number but no size a stream of the model fills
LargeSizeLines == {
    <<"7", "f", "f", "f", "f", "f", "f", "f", "f", "f", "f", "f", "f", "f", "f", "f">>,
    <<"f", "f", "f", "f", "f", "f", "f", "f">> }

Ghost(kind, chunks, style, line) == [kind |-> kind, chunks |-> chunks, style |-> style, line |-> line]

WellFormedCases ==
    {[stream |-> h \o EncodeChunks(c, st) \o tr, ghost |-> Ghost("wellformed", c, st, <<>>)] :
        h \in {HeadText(sStatusOK, <<hTE(sChunked)>>)}, c \in ChunkLists,
        st \in {"lower", "upper"}, tr \in {<<>>, <<"Z", LF>>}}
    \cup
    {[stream |-> h \o EncodeChunks(c, "lower"), ghost |-> Ghost("wellformed", c, "lower", <<>>)] :
        h \in ChunkedHeads \cup LengthHeads, c \in {<<sWiki, sPedia>>, <<>>, <<<<"a">>>>}}

BadSizeCases ==
    {[stream |-> h \o GoodChunks(c) \o l \o sCRLF \o <<"a", "b", "c", "d">> \o sCRLF \o EncodeChunks(<<>>, "lower"),
      ghost |-> Ghost("badsize", c, "lower", l)] :
        h \in {HeadText(sStatusOK, <<hTE(sChunked)>>)},
        c \in {<<>>, <<<<"a">>>>},
        l \in BadSizeLines \cup LargeSizeLines}

PlainCases ==
    {[stream |-> h \o b, ghost |-> Ghost("plain", <<>>, "lower", <<>>)] :
        h \in ChunkedHeads \cup LengthHeads \cup CloseHeads \cup BadStatusHeads, b \in PlainBodies}

\* every stream that ends early: the proper prefixes of three complete responses
CompleteResponses == {
    HeadText(sStatusOK, <<hCL(<<"3">>)>>) \o <<"a", "b", "c">>,
    HeadText(sStatusOK, <<hTE(sChunked)>>) \o EncodeChunks(<<sWiki, sPedia>>, "lower"),
    HeadText(StatusLineText(sHTTP10, <<SP, "2", "0", "0", SP>> \o sOK), <<>>) \o <<"a", "b", "c">> }

TruncatedCases ==
    UNION {{[stream |-> Take(s, k), ghost |-> Ghost("truncated", <<>>, "lower", <<>>)] :
                k \in 0..(Len(s) - 1)} : s \in CompleteResponses}

ReadCases == WellFormedCases \cup BadSizeCases \cup PlainCases \cup TruncatedCases

EndModes == {"closed", "reset", "timeout"}

----------------------------------------------------------------------------
(* models.HTTPRequest.ToRawRequest and client.buildRawRequest *)

\* the orders in which a range over a Go map may visit its keys
KeyOrders(h) ==
    {o \in [1..Cardinality(DOMAIN h) -> DOMAIN h] : \A i, j \in DOMAIN o : i # j => o[i] # o[j]}

\* the header lines in the given order of the keys, each "Name: Value CRLF"
HeaderLines(h, order) ==
    Flatten([i \in DOMAIN order |-> order[i] \o <<":", SP>> \o h[order[i]] \o sCRLF])

\* client.buildRawRequest, the map visited in the given order
buildRawRequest(r, path, order) ==
    r.Method \o <<SP>> \o path \o <<SP>> \o r.Version \o sCRLF
        \o HeaderLines(r.Headers, order) \o sCRLF \o r.Body

\* the request path of Send: the path of the target, "/" when it is empty,
\* then "?" and the query when there is one
RequestPath(u) ==
    (IF u.Path = <<>> THEN <<"/">> ELSE u.Path)
        \o (IF u.RawQuery # <<>> THEN <<"?">> \o u.RawQuery ELSE <<>>)

\* HTTPRequest.ToRawRequest, the map visited in the given order
ToRawRequest(r, order) ==
    With(urlParse(r.URL), LAMBDA parsedURL :
        buildRawRequest(r, IF parsedURL.ok THEN RequestPath(parsedURL) ELSE r.URL, order))

----------------------------------------------------------------------------
(* client.Send *)

s80 == <<"8", "0">>
s443 == <<"4", "4", "3">>

\* a DialAddress with port 80 for every scheme
DialAddress_Always80(u) ==
    IF Port(u) # <<>> THEN u.Host
    ELSE Hostname(u) \o <<":">> \o s80

\* the address Send dials: the host of the target with its port, or the host
\* name and the default port of the scheme
DialAddress(u) ==
    IF Port(u) # <<>> THEN u.Host
    ELSE Hostname(u) \o <<":">> \o (IF u.Scheme = sHttps THEN s443 ELSE s80)

\* the address Send(req, port) dials: a port other than 0 given by the caller
\* replaces the port of the target and the default of the scheme
DialAddressWithPort(u, port) ==
    IF port # 0 THEN Hostname(u) \o <<":">> \o Itoa(port) ELSE DialAddress(u)

\* a Send that dials again after a failure
SendFails_Retry(msg) ==
    /\ pc' = "send"
    /\ UNCHANGED <<sendResult, sendErr>>

\* return nil, err from Send before a connection exists
SendFails(msg) ==
    /\ sendResult' = "err"
    /\ sendErr' = msg
    /\ pc' = "sent"

\* no tls.Config: the connection is plain
NoTLS == [ServerName |-> <<>>, InsecureSkipVerify |-> FALSE]

\* a tls.Config that accepts any certificate
TLSConfig_Insecure(u) == [ServerName |-> Hostname(u), InsecureSkipVerify |-> TRUE]

\* &tls.Config{ServerName: parsedURL.Hostname()}: every other field has its
\* zero value, InsecureSkipVerify among them
TLSConfig(u) == [ServerName |-> Hostname(u), InsecureSkipVerify |-> FALSE]

\* the names a peer may present a certificate for: the host of the target, or
\* another host
PeerCertNames(u) == {Hostname(u), <<"x", ".", "i", "o">>}

\* the handshake of tls.Dial: the certificate is verified for config.ServerName
\* unless verification is switched off; without a server name it fails
Handshake(config, cert) ==
    \/ config.InsecureSkipVerify
    \/ config.ServerName # <<>> /\ cert = config.ServerName

\* url.Parse of the target, then tls.Dial or net.Dial
SendDialParsed(parsedURL) ==
    IF ~parsedURL.ok
    THEN /\ SendFails("invalid URL")
         /\ UNCHANGED <<conn, dials, dialAddr, tlsDone, tlsConfig, peerCert>>
    ELSE /\ dialAddr' = DialAddressWithPort(parsedURL, flags.port)
         /\ tlsConfig' = IF parsedURL.Scheme = sHttps THEN TLSConfig(parsedURL) ELSE NoTLS
         /\ \/ \* the TCP connection is refused or the name does not resolve
               /\ SendFails("connection failed")
               /\ UNCHANGED <<conn, dials, tlsDone, peerCert>>
            \/ \* tls.Dial connects and runs the handshake; when it fails tls.Dial closes the connection
               /\ parsedURL.Scheme = sHttps
               /\ dials' = dials + 1
               /\ \E cert \in PeerCertNames(parsedURL) :
                     /\ peerCert' = cert
                     /\ IF Handshake(tlsConfig', cert)
                        THEN /\ conn' = "open"
                             /\ tlsDone' = TRUE
                             /\ pc' = "deadline"
                             /\ UNCHANGED <<sendResult, sendErr>>
                        ELSE /\ conn' = "closed"
                             /\ SendFails("connection failed")
                             /\ UNCHANGED tlsDone
            \/ \* net.Dial connects
               /\ parsedURL.Scheme # sHttps
               /\ dials' = dials + 1
               /\ conn' = "open"
               /\ pc' = "deadline"
               /\ UNCHANGED <<sendResult, sendErr, tlsDone, peerCert>>

SendDial ==
    /\ pc = "send"
    /\ \E parsedURL \in {urlParse(req.URL)} : SendDialParsed(parsedURL)
    /\ UNCHANGED <<cli, flags, input, parsing, req, req0, result, exitCode, output, rawText, sendCalls, writes, wire, readVars, serverVars>>

\* a Send that returns its error without closing the connection
SendClosesAndFails_Leak(msg) ==
    /\ conn' = conn
    /\ sendResult' = "err"
    /\ sendErr' = msg
    /\ pc' = "sent"

\* the return of Send once the connection exists: the deferred conn.Close()
\* runs, then the caller gets the error
SendClosesAndFails(msg) ==
    /\ conn' = "closed"
    /\ sendResult' = "err"
    /\ sendErr' = msg
    /\ pc' = "sent"

\* conn.SetDeadline(time.Now().Add(30 * time.Second))
SendSetDeadline ==
    /\ pc = "deadline"
    /\ \/ /\ pc' = "write"
          /\ UNCHANGED <<conn, sendResult, sendErr>>
       \/ SendClosesAndFails("failed to set deadline")
    /\ UNCHANGED <<cli, flags, input, parsing, req, req0, result, exitCode, output, rawText, sendCalls, dials, dialAddr, tlsDone, tlsConfig, peerCert, writes, wire, readVars, serverVars>>

\* the responses the peer may answer a request with
PeerCases == {
    [stream |-> HeadText(sStatusOK, <<hCL(<<"3">>)>>) \o <<"a", "b", "c">>,
     ghost |-> Ghost("plain", <<>>, "lower", <<>>)],
    [stream |-> HeadText(sStatusOK, <<hTE(sChunked)>>) \o EncodeChunks(<<sWiki, sPedia>>, "lower"),
     ghost |-> Ghost("wellformed", <<sWiki, sPedia>>, "lower", <<>>)],
    [stream |-> HeadText(sStatusOK, <<hTE(sChunked)>>) \o <<"-", "1">> \o sCRLF,
     ghost |-> Ghost("badsize", <<>>, "lower", <<"-", "1">>)],
    [stream |-> HeadText(StatusLineText(sHTTP10, <<SP, "2", "0", "0", SP>> \o sOK), <<>>) \o <<"a", "b", "c">>,
     ghost |-> Ghost("plain", <<>>, "lower", <<>>)],
    [stream |-> Take(sStatusOK, 9), ghost |-> Ghost("truncated", <<>>, "lower", <<>>)],
    [stream |-> HeadText(sStatusOK, <<hCL(<<"3">>)>>) \o <<"a">>, ghost |-> Ghost("truncated", <<>>, "lower", <<>>)] }

\* buildRawRequest, conn.Write, and the call of readResponse
SendWrite ==
    /\ pc = "write"
    /\ \E order \in KeyOrders(req.Headers) :
         LET rawRequest == buildRawRequest(req, RequestPath(urlParse(req.URL)), order)
         IN \/ \* the write fails: nothing of the request counts as sent
               /\ SendClosesAndFails("failed to send request")
               /\ UNCHANGED <<writes, wire, readVars>>
            \/ /\ writes' = writes + 1
               /\ wire' = rawRequest
               /\ pc' = "read"
               /\ \E c \in PeerCases : stream' = c.stream /\ ghost' = c.ghost
               /\ endMode' \in EndModes
               /\ rpc' = "status"
               /\ UNCHANGED <<conn, sendResult, sendErr, rpos, resp, sb, framing, bodyStart, ioErr, sizeLines, rout, rerr>>
    /\ UNCHANGED <<cli, flags, input, parsing, req, req0, result, exitCode, output, rawText, sendCalls, dials, dialAddr, tlsDone, tlsConfig, peerCert, serverVars>>

\* return readResponse(conn): the deferred conn.Close() runs, also while a
\* panic unwinds; a panic then ends the process
SendReturn ==
    /\ pc = "read"
    /\ rpc = "done"
    /\ conn' = "closed"
    /\ sendResult' = rout
    /\ sendErr' = rerr
    /\ IF rout = "panic"
       THEN pc' = "exit" /\ exitCode' = 2
       ELSE pc' = "sent" /\ UNCHANGED exitCode
    /\ UNCHANGED <<cli, flags, input, parsing, req, req0, result, output, rawText, sendCalls, dials, dialAddr, tlsDone, tlsConfig, peerCert, writes, wire, readVars, serverVars>>

Send == SendDial \/ SendSetDeadline \/ SendWrite \/ readResponse \/ SendReturn

----------------------------------------------------------------------------
(* main: the two command-line front ends of the repository *)

\* os.Exit(code), or the return from main for code 0
Exit(code) ==
    /\ pc' = "exit"
    /\ exitCode' = code

\* -version: print the version and return
MainVersion ==
    /\ pc = "start"
    /\ flags.version
    /\ Exit(0)
    /\ UNCHANGED <<cli, flags, input, parsing, req, req0, result, output, rawText, sendVars, readVars, serverVars>>

\* os.ReadFile or io.ReadAll fails
MainReadError ==
    /\ pc = "start"
    /\ ~flags.version
    /\ Exit(1)
    /\ UNCHANGED <<cli, flags, input, parsing, req, req0, result, output, rawText, sendVars, readVars, serverVars>>

\* the input is read and parsed: -load-request of main.go parses without
\* preprocessing, everything else goes through parser.Parse
MainParse ==
    /\ pc = "start"
    /\ ~flags.version
    /\ IF ~(cli = "main.go" /\ flags.loadRequest) /\ ParseNeverReturns(input)
       THEN /\ pc' = "preprocess"
            /\ UNCHANGED <<parsing, req, req0, exitCode>>
       ELSE \E p \in {IF cli = "main.go" /\ flags.loadRequest THEN ParseRFCCompliant(input) ELSE Parse(input)} :
          /\ parsing' = [(IF cli = "main.go" /\ flags.loadRequest THEN NotParsed ELSE ParseEffects(input))
                            EXCEPT !.done = TRUE, !.err = p.err, !.req = p.req]
          /\ IF p.err # "nil"
             THEN Exit(1) /\ UNCHANGED <<req, req0>>
             ELSE /\ req' = p.req
                  /\ req0' = p.req
                  /\ pc' = "parsed"
                  /\ UNCHANGED exitCode
    /\ UNCHANGED <<cli, flags, input, result, output, rawText, sendVars, readVars, serverVars>>

\* validationResult := validator.Validate(req, noSecure)
MainValidate ==
    /\ pc = "parsed"
    /\ \E v \in {Validate(req, flags.noSecure)} :
          /\ req' = v.req
          /\ result' = [Errors |-> v.Errors, Warnings |-> v.Warnings]
    /\ pc' = "validated"
    /\ UNCHANGED <<cli, flags, input, parsing, req0, exitCode, output, rawText, sendVars, readVars, serverVars>>

\* a main.go that saves the request before it looks at the strict flag
MainDispatchV1_SaveFirst ==
    /\ pc = "validated"
    /\ cli = "main.go"
    /\ IF HasErrors(result) THEN Exit(1) /\ UNCHANGED <<output, rawText, sendCalls>>
       ELSE IF flags.saveRequest
       THEN \/ Exit(1) /\ UNCHANGED <<output, rawText, sendCalls>>
            \/ Exit(0) /\ output' = "saved" /\ (\E order \in KeyOrders(req.Headers) : rawText' = ToRawRequest(req, order)) /\ UNCHANGED sendCalls
       ELSE IF flags.strict /\ HasWarnings(result) THEN Exit(1) /\ UNCHANGED <<output, rawText, sendCalls>>
       ELSE IF flags.dryRun THEN Exit(0) /\ output' = "preview" /\ UNCHANGED <<rawText, sendCalls>>
       ELSE /\ pc' = "send"
            /\ sendCalls' = sendCalls + 1
            /\ UNCHANGED <<exitCode, output, rawText>>
    /\ UNCHANGED <<cli, flags, input, parsing, req, req0, result, conn, dials, dialAddr, tlsDone, tlsConfig, peerCert, writes, wire, sendResult, sendErr, readVars, serverVars>>

\* main.go after Validate, up to the call of client.Send
MainDispatchV1 ==
    /\ pc = "validated"
    /\ cli = "main.go"
    /\ IF HasErrors(result) THEN Exit(1) /\ UNCHANGED <<output, rawText, sendCalls>>
       ELSE IF flags.strict /\ HasWarnings(result) THEN Exit(1) /\ UNCHANGED <<output, rawText, sendCalls>>
       ELSE IF flags.saveRequest
       THEN \/ Exit(1) /\ UNCHANGED <<output, rawText, sendCalls>>
            \/ Exit(0) /\ output' = "saved" /\ (\E order \in KeyOrders(req.Headers) : rawText' = ToRawRequest(req, order)) /\ UNCHANGED sendCalls
       ELSE IF flags.dryRun THEN Exit(0) /\ output' = "preview" /\ UNCHANGED <<rawText, sendCalls>>
       ELSE /\ pc' = "send"
            /\ sendCalls' = sendCalls + 1
            /\ UNCHANGED <<exitCode, output, rawText>>
    /\ UNCHANGED <<cli, flags, input, parsing, req, req0, result, conn, dials, dialAddr, tlsDone, tlsConfig, peerCert, writes, wire, sendResult, sendErr, readVars, serverVars>>

\* a main that prints the wire text for -no-send and then sends all the same
MainDispatchV2_SendAnyway ==
    /\ pc = "validated"
    /\ cli = "no-send"
    /\ IF flags.noSend
       THEN IF flags.strict /\ HasWarnings(result) THEN Exit(1) /\ UNCHANGED <<output, rawText, sendCalls>>
            ELSE IF HasErrors(result) THEN Exit(1) /\ UNCHANGED <<output, rawText, sendCalls>>
            ELSE /\ output' = "raw"
                 /\ \E order \in KeyOrders(req.Headers) : rawText' = ToRawRequest(req, order)
                 /\ pc' = "send"
                 /\ sendCalls' = sendCalls + 1
                 /\ UNCHANGED exitCode
       ELSE IF HasErrors(result) THEN Exit(1) /\ UNCHANGED <<output, rawText, sendCalls>>
       ELSE IF flags.strict /\ HasWarnings(result) THEN Exit(1) /\ UNCHANGED <<output, rawText, sendCalls>>
       ELSE /\ pc' = "send"
            /\ sendCalls' = sendCalls + 1
            /\ UNCHANGED <<exitCode, output, rawText>>
    /\ UNCHANGED <<cli, flags, input, parsing, req, req0, result, conn, dials, dialAddr, tlsDone, tlsConfig, peerCert, writes, wire, sendResult, sendErr, readVars, serverVars>>

\* the main with -no-send after Validate, up to the call of client.Send
MainDispatchV2 ==
    /\ pc = "validated"
    /\ cli = "no-send"
    /\ IF flags.noSend
       THEN IF flags.strict /\ HasWarnings(result) THEN Exit(1) /\ UNCHANGED <<output, rawText, sendCalls>>
            ELSE IF HasErrors(result) THEN Exit(1) /\ UNCHANGED <<output, rawText, sendCalls>>
            ELSE Exit(0) /\ output' = "raw" /\ (\E order \in KeyOrders(req.Headers) : rawText' = ToRawRequest(req, order)) /\ UNCHANGED sendCalls
       ELSE IF HasErrors(result) THEN Exit(1) /\ UNCHANGED <<output, rawText, sendCalls>>
       ELSE IF flags.strict /\ HasWarnings(result) THEN Exit(1) /\ UNCHANGED <<output, rawText, sendCalls>>
       ELSE /\ pc' = "send"
            /\ sendCalls' = sendCalls + 1
            /\ UNCHANGED <<exitCode, output, rawText>>
    /\ UNCHANGED <<cli, flags, input, parsing, req, req0, result, conn, dials, dialAddr, tlsDone, tlsConfig, peerCert, writes, wire, sendResult, sendErr, readVars, serverVars>>

\* after client.Send: an error ends the process with status 1, a Response is printed
MainAfterSend ==
    /\ pc = "sent"
    /\ IF sendResult = "err"
       THEN Exit(1) /\ UNCHANGED <<output, rawText>>
       ELSE Exit(0) /\ output' = "response" /\ UNCHANGED rawText
    /\ UNCHANGED <<cli, flags, input, parsing, req, req0, result, sendVars, readVars, serverVars>>

main ==
    \/ MainVersion
    \/ MainReadError
    \/ MainParse
    \/ MainValidate
    \/ MainDispatchV1
    \/ MainDispatchV2
    \/ Send
    \/ MainAfterSend

----------------------------------------------------------------------------
(* The inputs of the command line *)

sPost == <<"p", "o", "s", "t">>
sGet == <<"g", "e", "t">>
sPURGE == <<"P", "U", "R", "G", "E">>
sHTTP9 == <<"H", "T", "T", "P", "/", "9">>
uPath == <<"/", "p">>
uPathQuery == <<"/", "p", "?", "q", "=", "1">>
uAbs == <<"h", "t", "t", "p", "s", ":", "/", "/", "h", ".", "i", "o", "/", "p">>
uAbsHttp == <<"h", "t", "t", "p", ":", "/", "/", "h", ".", "i", "o">>
uAbsPort == <<"h", "t", "t", "p", "s", ":", "/", "/", "h", ".", "i", "o", ":", "8", "4", "4", "3", "/", "p", "?", "q", "=", "1">>
uNoScheme == <<"h", ".", "i", "o", "/", "p">>
uFtp == <<"f", "t", "p", ":", "/", "/", "h", ".", "i", "o", "/", "p">>
uNoHost == <<"h", "t", "t", "p", "s", ":", "/", "/", "/", "p">>
uSpaceHost == <<"h", "t", "t", "p", "s", ":", "/", "/", "h", " ", "i", "o", "/", "p">>
uOpaque == <<"m", "a", "i", "l", "t", "o", ":", "x">>
uColonFirst == <<":", "x">>
uBadPort == <<"h", "t", "t", "p", "s", ":", "/", "/", "h", ".", "i", "o", ":", "x", "/", "p">>
uForceQuery == <<"h", "t", "t", "p", "s", ":", "/", "/", "h", ".", "i", "o", "/", "p", "?">>
uUpperScheme == <<"H", "T", "T", "P", "S", ":", "/", "/", "h", ".", "i", "o", "/", "p">>
uTemplate == <<"h", "t", "t", "p", "s", ":", "/", "/", "h", ".", "i", "o", "/", "p", "?", "t", "=", "$", "{", "T", "O", "K", "}">>
uEscaped == <<"h", "t", "t", "p", "s", ":", "/", "/", "h", ".", "i", "o", "/", "a", "%", "2", "0", "b">>
vHost == <<"h", ".", "i", "o">>
vHostPort == <<"h", ".", "i", "o", ":", "8", "0", "8", "0">>
vHostSpace == <<"h", " ", "i", "o">>
vHostPath == <<"h", ".", "i", "o", "/", "x">>
vOther == <<"x", ".", "i", "o">>
vIdName == <<"X", "-", "I", "d">>
vJson == <<"t", "e", "x", "t", "/", "j", "s", "o", "n">>
bAbc == <<"a", "b", "c">>
bTwoLines == <<"a", "b", "c", LF, "d", "e">>

\* a header line of an input text
InputHeader(name, value) == name \o <<":", SP>> \o value

\* an input text: the request line, the header lines, and after a blank line
\* the body, with the given line ending
InputText(fields, headerLines, body, eol) ==
    Join(<<Join(fields, <<SP>>)>> \o headerLines, eol) \o eol
        \o (IF body # <<>> THEN eol \o body ELSE <<>>)

Inputs == {
    InputText(<<sGET, uAbs, sHTTP11>>, <<InputHeader(sHost, vHost)>>, <<>>, <<LF>>),
    InputText(<<sGET, uAbs, sHTTP11>>, <<>>, <<>>, <<LF>>),
    InputText(<<sGET, uPath, sHTTP11>>, <<InputHeader(sHost, vHost)>>, <<>>, <<LF>>),
    InputText(<<sGET, uPath, sHTTP11>>, <<>>, <<>>, <<LF>>),
    InputText(<<sGET, uNoScheme, sHTTP11>>, <<>>, <<>>, <<LF>>),
    InputText(<<sPOST, uAbs, sHTTP11>>, <<InputHeader(sHost, vHost), InputHeader(sContentType, vJson)>>, bAbc, <<LF>>),
    InputText(<<sPOST, uAbs, sHTTP11>>,
              <<InputHeader(sHost, vHost), InputHeader(sContentType, vJson), InputHeader(sContentLength, <<"3">>)>>,
              bAbc, <<LF>>),
    InputText(<<sPOST, uAbs, sHTTP11>>,
              <<InputHeader(sHost, vHost), InputHeader(sContentType, vJson), InputHeader(sContentLength, <<"1", "0", "0">>)>>,
              bAbc, <<LF>>),
    InputText(<<sGET, uPath, sHTTP11>>, <<sHost \o <<":">>>>, <<>>, <<LF>>),
    InputText(<<sGET, uPath, sHTTP11>>, <<InputHeader(sHost, vHostSpace)>>, <<>>, <<LF>>),
    InputText(<<sGET>>, <<>>, <<>>, <<LF>>),
    <<>>,
    InputText(<<sGET, uAbs, sHTTP11>>, <<sHost>>, <<>>, <<LF>>),
    InputText(<<sGET, uPath, sHTTP11>>, <<InputHeader(sHost, vHost)>>, <<>>, sCRLF),
    <<"#", SP, "c", LF>> \o InputText(<<sGET, uTemplate, sHTTP11>>, <<InputHeader(sHost, vHost)>>, <<>>, <<LF>>),
    InputText(<<sGET, uAbs, sHTTP11>>,
              <<InputHeader(sHost, vHost), InputHeader(vIdName, <<"$", "(">> \o sEcho \o <<")", "-", "$">> \o sTOKEN)>>,
              <<>>, <<LF>>),
    InputText(<<sGet, uAbsHttp, sHTTP10>>, <<>>, <<>>, <<LF>>),
    InputText(<<sGET, uAbs>>, <<InputHeader(sHost, vHost)>>, <<>>, <<LF>>),
    InputText(<<sPURGE, uFtp, sHTTP9>>, <<InputHeader(sHost, vHost)>>, <<>>, <<LF>>),
    InputText(<<sGET, uAbsPort, sHTTP11>>, <<InputHeader(sHost, vHost), InputHeader(ToLower(sHost), vOther)>>, <<>>, <<LF>>),
    InputText(<<sGET, uEscaped, sHTTP11>>, <<InputHeader(sHost, vHost)>>, <<>>, <<LF>>),
    InputText(<<sGET, uAbs, sHTTP11>>,
              <<InputHeader(sHost, vHost), InputHeader(vIdName, <<"1">>), InputHeader(vIdName, <<"2">>)>>, <<>>, <<LF>>) }

Flags(version, strict, noSecureFlag, dryRun, saveRequest, loadRequest, noSend) ==
    [version |-> version, strict |-> strict, noSecure |-> noSecureFlag, dryRun |-> dryRun,
     saveRequest |-> saveRequest, loadRequest |-> loadRequest, noSend |-> noSend, port |-> 0]

\* the command lines of main.go
FlagsV1 ==
    {Flags(FALSE, s, n, d, sv, l, FALSE) : s, n, d, sv, l \in BOOLEAN}
        \cup {Flags(TRUE, FALSE, FALSE, FALSE, FALSE, FALSE, FALSE)}

\* the values of -port: 0 when the flag is not given
OverridePorts == {0, 8080}

\* the command lines of the main with -no-send
FlagsV2 ==
    {[Flags(FALSE, s, n, FALSE, FALSE, FALSE, ns) EXCEPT !.port = p] : s, n, ns \in BOOLEAN, p \in OverridePorts}
        \cup {Flags(TRUE, FALSE, FALSE, FALSE, FALSE, FALSE, FALSE)}

----------------------------------------------------------------------------
(* The request-capturing test server: NewWithConfig, GetRequests, ClearRequests *)

\* the most requests that come in, each handled by a goroutine of its own
MaxRequests == 3
\* the most calls of GetRequests and ClearRequests the test makes
MaxCalls == 2

\* the goroutines net/http runs the handler in, one for each request, and the
\* goroutine of the test
Handlers == 1..MaxRequests
TestGoroutine == MaxRequests + 1

\* a slice with no backing array: make([]*CapturedRequest, 0) and
\* []*CapturedRequest{}
EmptySlice == [arr |-> 0, len |-> 0, cap |-> 0]

\* the elements of slice s in the heap h
Elems(h, s) == IF s.len = 0 THEN <<>> ELSE SubSeq(h[s.arr], 1, s.len)

\* append(s, x): [heap, slice]. Within the capacity the element is written
\* into the backing array of s; beyond it a new array of twice the capacity is
\* allocated and the elements are copied
AppendSlice(h, s, x) ==
    IF s.len < s.cap
    THEN [heap |-> [h EXCEPT ![s.arr][s.len + 1] = x],
          slice |-> [s EXCEPT !.len = s.len + 1]]
    ELSE LET newcap == IF s.cap = 0 THEN 1 ELSE 2 * s.cap
             array == [i \in 1..newcap |-> IF i <= s.len THEN h[s.arr][i] ELSE IF i = s.len + 1 THEN x ELSE 0]
         IN [heap |-> Append(h, array),
             slice |-> [arr |-> Len(h) + 1, len |-> s.len + 1, cap |-> newcap]]

\* append([]*CapturedRequest{}, s...): nothing to append gives the empty
\* slice back, anything else a new array that holds a copy of the elements
CopySlice(h, s) ==
    IF s.len = 0 THEN [heap |-> h, slice |-> EmptySlice]
    ELSE [heap |-> Append(h, Elems(h, s)),
          slice |-> [arr |-> Len(h) + 1, len |-> s.len, cap |-> s.len]]

\* a handler that goes on without the mutex
HandlerLock_NoMutex(g) ==
    /\ gpc[g] = "lock"
    /\ gpc' = [gpc EXCEPT ![g] = "append"]
    /\ UNCHANGED <<Requests, mu, heap, loaded, snapshots, clears>>
    /\ UNCHANGED <<mainVars, sendVars, readVars>>

\* ts.mu.Lock() of the handler: waits until the mutex is free
HandlerLock(g) ==
    /\ gpc[g] = "lock"
    /\ mu = 0
    /\ mu' = g
    /\ gpc' = [gpc EXCEPT ![g] = "append"]
    /\ UNCHANGED <<Requests, heap, loaded, snapshots, clears>>
    /\ UNCHANGED <<mainVars, sendVars, readVars>>

\* ts.Requests = append(ts.Requests, ...): the read of ts.Requests
HandlerAppendLoad(g) ==
    /\ gpc[g] = "append"
    /\ loaded' = [loaded EXCEPT ![g] = Requests]
    /\ gpc' = [gpc EXCEPT ![g] = "store"]
    /\ UNCHANGED <<Requests, mu, heap, snapshots, clears>>
    /\ UNCHANGED <<mainVars, sendVars, readVars>>

\* ts.Requests = append(ts.Requests, ...): the append and the write of
\* ts.Requests; the captured request of goroutine g is written as g
HandlerAppendStore(g) ==
    /\ gpc[g] = "store"
    /\ \E a \in {AppendSlice(heap, loaded[g], g)} :
          /\ heap' = a.heap
          /\ Requests' = a.slice
    /\ gpc' = [gpc EXCEPT ![g] = "unlock"]
    /\ UNCHANGED <<mu, loaded, snapshots, clears>>
    /\ UNCHANGED <<mainVars, sendVars, readVars>>

\* ts.mu.Unlock() of the handler
HandlerUnlock(g) ==
    /\ gpc[g] = "unlock"
    /\ mu' = 0
    /\ gpc' = [gpc EXCEPT ![g] = "respond"]
    /\ UNCHANGED <<Requests, heap, loaded, snapshots, clears>>
    /\ UNCHANGED <<mainVars, sendVars, readVars>>

\* the delay, the response headers and the response body
HandlerRespond(g) ==
    /\ gpc[g] = "respond"
    /\ gpc' = [gpc EXCEPT ![g] = "done"]
    /\ UNCHANGED <<Requests, mu, heap, loaded, snapshots, clears>>
    /\ UNCHANGED <<mainVars, sendVars, readVars>>

\* the handler NewWithConfig installs
Handler(g) ==
    \/ HandlerLock(g)
    \/ HandlerAppendLoad(g)
    \/ HandlerAppendStore(g)
    \/ HandlerUnlock(g)
    \/ HandlerRespond(g)

\* the test has calls left
CallsLeft == Len(snapshots) + clears < MaxCalls

\* GetRequests: ts.mu.Lock()
GetRequestsLock ==
    /\ gpc[TestGoroutine] = "idle"
    /\ CallsLeft
    /\ mu = 0
    /\ mu' = TestGoroutine
    /\ gpc' = [gpc EXCEPT ![TestGoroutine] = "get"]
    /\ UNCHANGED <<Requests, heap, loaded, snapshots, clears>>
    /\ UNCHANGED <<mainVars, sendVars, readVars>>

\* GetRequests: the copy is made, the deferred Unlock runs, the copy is
\* returned
GetRequestsReturn ==
    /\ gpc[TestGoroutine] = "get"
    /\ \E c \in {CopySlice(heap, Requests)} :
          /\ heap' = c.heap
          /\ snapshots' = Append(snapshots, [slice |-> c.slice, elems |-> Elems(heap, Requests)])
    /\ mu' = 0
    /\ gpc' = [gpc EXCEPT ![TestGoroutine] = "idle"]
    /\ UNCHANGED <<Requests, loaded, clears>>
    /\ UNCHANGED <<mainVars, sendVars, readVars>>

GetRequests == GetRequestsLock \/ GetRequestsReturn

\* ClearRequests: ts.mu.Lock()
ClearRequestsLock ==
    /\ gpc[TestGoroutine] = "idle"
    /\ CallsLeft
    /\ mu = 0
    /\ mu' = TestGoroutine
    /\ gpc' = [gpc EXCEPT ![TestGoroutine] = "clear"]
    /\ UNCHANGED <<Requests, heap, loaded, snapshots, clears>>
    /\ UNCHANGED <<mainVars, sendVars, readVars>>

\* ClearRequests: ts.Requests is a new empty slice, the deferred Unlock runs
ClearRequestsReturn ==
    /\ gpc[TestGoroutine] = "clear"
    /\ Requests' = EmptySlice
    /\ clears' = clears + 1
    /\ mu' = 0
    /\ gpc' = [gpc EXCEPT ![TestGoroutine] = "idle"]
    /\ UNCHANGED <<heap, loaded, snapshots>>
    /\ UNCHANGED <<mainVars, sendVars, readVars>>

ClearRequests == ClearRequestsLock \/ ClearRequestsReturn

\* no test server runs
IdleServer ==
    /\ Requests = EmptySlice
    /\ mu = 0
    /\ heap = <<>>
    /\ gpc = <<>>
    /\ loaded = <<>>
    /\ snapshots = <<>>
    /\ clears = 0

NoResult == [Errors |-> <<>>, Warnings |-> <<>>]

\* no readResponse is running
IdleRead ==
    /\ stream = <<>>
    /\ endMode = "closed"
    /\ ghost = Ghost("none", <<>>, "lower", <<>>)
    /\ rpc = "idle"
    /\ rpos = 0
    /\ resp = EmptyResponse
    /\ sb = <<>>
    /\ framing = "none"
    /\ bodyStart = 0
    /\ ioErr = "none"
    /\ sizeLines = <<>>
    /\ rout = "none"
    /\ rerr = "nil"

\* no Send has been called
IdleSend ==
    /\ sendCalls = 0
    /\ conn = "none"
    /\ dials = 0
    /\ dialAddr = <<>>
    /\ tlsDone = FALSE
    /\ tlsConfig = NoTLS
    /\ peerCert = <<>>
    /\ writes = 0
    /\ wire = <<>>
    /\ sendResult = "none"
    /\ sendErr = "nil"

Init ==
    /\ \/ cli = "main.go" /\ flags \in FlagsV1
       \/ cli = "no-send" /\ flags \in FlagsV2
    /\ input \in Inputs
    /\ parsing = NotParsed
    /\ pc = "start"
    /\ req = NoRequest
    /\ req0 = NoRequest
    /\ result = NoResult
    /\ exitCode = -1
    /\ output = "none"
    /\ rawText = <<>>
    /\ IdleSend
    /\ IdleRead
    /\ IdleServer

Next == main

Spec == Init /\ [][Next]_vars

----------------------------------------------------------------------------
(* The requests validator.Validate is run on *)

HostOptions == {
    NoHeaders,
    SetHeader(NoHeaders, sHost, vHost),
    SetHeader(NoHeaders, sHost, <<>>),
    SetHeader(NoHeaders, sHost, vHostPort),
    SetHeader(NoHeaders, sHost, vHostSpace),
    SetHeader(NoHeaders, sHost, vHostPath),
    SetHeader(NoHeaders, ToLower(sHost), vHost),
    SetHeader(SetHeader(NoHeaders, sHost, vHost), ToLower(sHost), vOther) }

LengthOptions == {
    NoHeaders,
    SetHeader(NoHeaders, sContentLength, <<"3">>),
    SetHeader(NoHeaders, sContentLength, <<"1", "0", "0">>),
    SetHeader(NoHeaders, sContentLength, <<"x">>),
    SetHeader(NoHeaders, ToLower(sContentLength), <<"3">>) }

TypeOptions == {NoHeaders, SetHeader(NoHeaders, sContentType, vJson),
                SetHeader(NoHeaders, ToLower(sContentType), vJson)}

ValidateURLs == {<<>>, uPath, uPathQuery, uAbs, uAbsHttp, uAbsPort, uNoScheme, uFtp, uNoHost,
                 uSpaceHost, uOpaque, uColonFirst, uBadPort, uForceQuery, uUpperScheme, uEscaped}

ValidateCases ==
    {HTTPRequest(m, u, v, h1 @@ h2 @@ h3, b) :
        m \in {sGET, sPost}, u \in ValidateURLs, v \in {sHTTP11, sHTTP10, sHTTP9},
        h1 \in HostOptions, h2 \in LengthOptions, h3 \in TypeOptions, b \in {<<>>, bAbc, bTwoLines}}

\* main has parsed a request and is about to validate it
InitValidate ==
    /\ cli = "no-send"
    /\ flags \in {Flags(FALSE, FALSE, n, FALSE, FALSE, FALSE, FALSE) : n \in BOOLEAN}
    /\ input = <<>>
    /\ parsing = NotParsed
    /\ pc = "parsed"
    /\ req \in ValidateCases
    /\ req0 = req
    /\ result = NoResult
    /\ exitCode = -1
    /\ output = "none"
    /\ rawText = <<>>
    /\ IdleSend
    /\ IdleRead
    /\ IdleServer

NextValidate == MainValidate

SpecValidate == InitValidate /\ [][NextValidate]_vars

----------------------------------------------------------------------------
(* readResponse on its own *)

\* readResponse is entered with a fresh reader on the connection
StartRead(cases) ==
    /\ \E c \in cases : stream = c.stream /\ ghost = c.ghost
    /\ endMode \in EndModes
    /\ rpc = "status"
    /\ rpos = 0
    /\ resp = EmptyResponse
    /\ sb = <<>>
    /\ framing = "none"
    /\ bodyStart = 0
    /\ ioErr = "none"
    /\ sizeLines = <<>>
    /\ rout = "none"
    /\ rerr = "nil"

\* Send has written a request and calls readResponse
InitRead ==
    /\ StartRead(ReadCases)
    /\ cli = "no-send"
    /\ flags = Flags(FALSE, FALSE, FALSE, FALSE, FALSE, FALSE, FALSE)
    /\ input = <<>>
    /\ parsing = NotParsed
    /\ pc = "read"
    /\ req = NoRequest
    /\ req0 = NoRequest
    /\ result = NoResult
    /\ exitCode = -1
    /\ output = "none"
    /\ rawText = <<>>
    /\ sendCalls = 1
    /\ conn = "open"
    /\ dials = 1
    /\ dialAddr = <<>>
    /\ tlsDone = FALSE
    /\ tlsConfig = NoTLS
    /\ peerCert = <<>>
    /\ writes = 1
    /\ wire = <<>>
    /\ sendResult = "none"
    /\ sendErr = "nil"
    /\ IdleServer

NextRead == readResponse

SpecRead == InitRead /\ [][NextRead]_vars

----------------------------------------------------------------------------
(* SpecParse: main reads one template and parses it *)

\* the lines templates are made of: request lines with three, two and one
\* token, comments, a header with environment variables that are unset and a
\* command that fails, a header with a command that runs and a variable that
\* is set, a line without a colon and a header that ends in carriage returns;
\* the blank line is the tenth
lGet == <<"G", "E", "T", SP, "/", "p", SP, "H", "T", "T", "P", "/", "1", ".", "1">>
lGetShort == <<"G", "E", "T", SP, "/", "p">>
lOneToken == <<"G", "E", "T">>
lComment == <<"#", SP, "$", "(", "e", "c", "h", "o", SP, "h", "i", ")", SP, "$", "{", "T", "O", "K", "}">>
lSlashComment == <<SP, "/", "/", SP, "$", "T", "O", "K">>
lHeaderDegraded == <<"B", ":", SP, "$", "{", "N", "O", "P", "E", "}", "$", "N", "O", "P", "E", ".", "$", "(", "f", "a", "l", "s", "e", ")", "!">>
lHeaderCmd == <<"C", ":", SP, "$", "(", "e", "c", "h", "o", SP, "h", "i", ")", "-", "$", "T", "O", "K">>
lNoColon == <<"n", "o", "c", "o", "l", "o", "n">>
lTwoCR == <<"F", ":", SP, "1", CR, CR>>

TemplateLines == {lGet, lGetShort, lOneToken, lComment, lSlashComment, lHeaderDegraded, lHeaderCmd,
                  lNoColon, lTwoCR, <<>>}

\* the most lines a template has
MaxLines == 3

\* the templates: up to MaxLines lines joined by line feeds or by CR LF pairs,
\* ending with no line terminator, with one or with two
Templates ==
    {Join(ls, eol) \o end : ls \in UNION {[1..n -> TemplateLines] : n \in 1..MaxLines},
                           eol \in {<<LF>>, sCRLF},
                           end \in {<<>>, <<LF>>, <<LF, LF>>}}

InitParse ==
    /\ cli = "main.go"
    /\ flags = Flags(FALSE, FALSE, FALSE, FALSE, FALSE, FALSE, FALSE)
    /\ input \in Templates
    /\ parsing = NotParsed
    /\ pc = "start"
    /\ req = NoRequest
    /\ req0 = NoRequest
    /\ result = NoResult
    /\ exitCode = -1
    /\ output = "none"
    /\ rawText = <<>>
    /\ IdleSend
    /\ IdleRead
    /\ IdleServer

NextParse == MainParse

SpecParse == InitParse /\ [][NextParse]_vars

----------------------------------------------------------------------------
(* The parser run on templates whose substitutions insert markers and line feeds *)

\* header lines and body lines with one substitution each: variables whose
\* value holds a ${...}, a $(...), a $NAME or a line feed, commands whose output
\* holds a $(...) or a blank line, and a variable and a command with plain text
lBraceLoop == <<"A", ":", SP>> \o vSelf
lShellLoop == <<"B", ":", SP>> \o Take(vCatF, Len(vCatF) - 1)
lBraceCommand == <<"C", ":", SP, "$", "{", "C", "M", "D", "}">>
lNameCommand == <<"D", ":", SP, "$", "C", "M", "D">>
lBraceRef == <<"E", ":", SP, "$", "{", "R", "E", "F", "}">>
lNameRef == <<"F", ":", SP, "$", "R", "E", "F">>
lNameLines == <<"G", ":", SP, "$", "N", "L">>
lCommandLines == <<"H", ":", SP, "$", "(", "c", "a", "t", SP, "g", ")">>
lNameToken == <<"I", ":", SP, "$", "T", "O", "K">>
lCommandEcho == <<"J", ":", SP>> \o vCommand
lBody == <<"b", "o", "d", "y">>

SubstLines == {lBraceLoop, lShellLoop, lBraceCommand, lNameCommand, lBraceRef, lNameRef, lNameLines,
               lCommandLines, lNameToken, lCommandEcho, lBody, <<>>}

\* a request line followed by up to MaxLines - 1 of these lines
SubstTemplates ==
    {Join(<<lGet>> \o ls, <<LF>>) \o end : ls \in UNION {[1..n -> SubstLines] : n \in 1..(MaxLines - 1)},
                                         end \in {<<>>, <<LF>>}}

InitSubst ==
    /\ cli = "main.go"
    /\ flags = Flags(FALSE, FALSE, FALSE, FALSE, FALSE, FALSE, FALSE)
    /\ input \in SubstTemplates
    /\ parsing = NotParsed
    /\ pc = "start"
    /\ req = NoRequest
    /\ req0 = NoRequest
    /\ result = NoResult
    /\ exitCode = -1
    /\ output = "none"
    /\ rawText = <<>>
    /\ IdleSend
    /\ IdleRead
    /\ IdleServer

NextSubst == MainParse

SpecSubst == InitSubst /\ [][NextSubst]_vars

\* a step of main out of its first position, wherever it leads; every step of
\* MainParse is one
MainRuns ==
    /\ pc = "start"
    /\ pc' \in {"preprocess", "parsed", "exit"}
    /\ UNCHANGED <<cli, flags, input>>

\* main is the only goroutine of the process and runs whenever it can: it
\* does not stay in front of the parser for ever
SpecSubstFair == SpecSubst /\ WF_pc(MainRuns)

----------------------------------------------------------------------------
(* The test server with its requests coming in *)

\* NewWithConfig has returned: no request is captured; every request has
\* come in and its handler has read the body, the test calls nothing yet. No
\* command-line process runs.
InitServer ==
    /\ Requests = EmptySlice
    /\ mu = 0
    /\ heap = <<>>
    /\ gpc = [g \in 1..(MaxRequests + 1) |-> IF g = TestGoroutine THEN "idle" ELSE "lock"]
    /\ loaded = [g \in Handlers |-> EmptySlice]
    /\ snapshots = <<>>
    /\ clears = 0
    /\ cli = "main.go"
    /\ flags = Flags(FALSE, FALSE, FALSE, FALSE, FALSE, FALSE, FALSE)
    /\ input = <<>>
    /\ parsing = NotParsed
    /\ pc = "none"
    /\ req = NoRequest
    /\ req0 = NoRequest
    /\ result = NoResult
    /\ exitCode = -1
    /\ output = "none"
    /\ rawText = <<>>
    /\ IdleSend
    /\ IdleRead

NextServer ==
    \/ \E g \in Handlers : Handler(g)
    \/ GetRequests
    \/ ClearRequests

SpecServer == InitServer /\ [][NextServer]_vars


----------------------------------------------------------------------------
(* Claims about readResponse, checked under SpecRead *)

\* a read failed: the peer reset the connection, the deadline passed, or the
\* stream ended before what was being read was complete (the end of the stream
\* completes only a body that is delimited by the close of the connection)
ReadFailed ==
    \/ ioErr \in {"reset", "timeout"}
    \/ ioErr = "closed" /\ framing # "close"

\* C5: if any read fails (reset, deadline, or the stream ending early) while the
\* status line, the headers or the body is read, under any of the three
\* framings, an error and no Response is returned; a Response is returned only
\* when the body was received completely.
C5_ReadFailureIsError ==
    (rpc = "done" /\ ReadFailed) => rout = "err"

\* the framing the headers ask for, in the order of priority: Content-Length
\* that is a positive integer, then Transfer-Encoding containing "chunked" in
\* any letter case, then the close of the connection
ExpectedFraming(h) ==
    IF /\ \E k \in DOMAIN h : k = sContentLength
       /\ LET v == h[sContentLength]
              digits == IF v # <<>> /\ Head(v) = "+" THEN Tail(v) ELSE v
          IN /\ digits # <<>>
             /\ \A i \in DOMAIN digits : digits[i] \in Range(DecDigits)
             /\ \E i \in DOMAIN digits : digits[i] # "0"
    THEN "cl"
    ELSE IF /\ \E k \in DOMAIN h : k = sTransferEncoding
            /\ \E i \in 1..Len(h[sTransferEncoding]) :
                   /\ i + 6 <= Len(h[sTransferEncoding])
                   /\ \A j \in 1..7 : ToLowerCh(h[sTransferEncoding][i + j - 1]) = sChunked[j]
    THEN "chunked"
    ELSE "close"

\* C6: readResponse chooses the body framing in strict priority order:
\* Content-Length that parses as a positive integer (exactly that many bytes
\* are the body, also when Transfer-Encoding: chunked is present), else
\* chunked decoding when Transfer-Encoding contains "chunked" in any letter
\* case, else every byte received until the connection ends.
C6_FramingPriority ==
    /\ rpc \in {"chunk", "done"} /\ bodyStart > 0 => framing = ExpectedFraming(resp.Headers)
    /\ rout = "resp" =>
          /\ framing # "none"
          /\ framing = "cl" =>
                /\ Len(resp.Body) = Atoi(resp.Headers[sContentLength]).val
                /\ resp.Body = SubSeq(stream, bodyStart + 1, bodyStart + Len(resp.Body))
                /\ rpos = bodyStart + Len(resp.Body)
          /\ framing = "chunked" => sizeLines # <<>>
          /\ framing = "close" => resp.Body = SubSeq(stream, bodyStart + 1, Len(stream))

\* a Response whose body was taken by Content-Length although the head also
\* announced chunked encoding
C6_Witness ==
    /\ rout = "resp"
    /\ framing = "cl"
    /\ sTransferEncoding \in DOMAIN resp.Headers
    /\ resp.Body = <<"a", "b", "c">>

\* C7: a well-formed chunked stream decodes to the concatenation of the chunk
\* payloads in arrival order, without size lines or delimiters, and decoding
\* stops right after the line that follows the zero-size chunk.
C7_ChunkDecode ==
    (rpc = "done" /\ ghost.kind = "wellformed" /\ framing = "chunked") =>
        /\ rout = "resp"
        /\ resp.Body = Flatten(ghost.chunks)
        /\ rpos = bodyStart + Len(EncodeChunks(ghost.chunks, ghost.style))

\* the chunks 4/Wiki, 5/pedia, 0 have been decoded to Wikipedia
C7_Witness ==
    /\ rpc = "done"
    /\ ghost.kind = "wellformed"
    /\ ghost.chunks = <<sWiki, sPedia>>
    /\ framing = "chunked"
    /\ resp.Body = sWikipedia
    /\ rpos < Len(stream)

\* a chunk-size line that is a non-negative hexadecimal number in the range of
\* a 64-bit signed integer
ValidChunkSize(line) ==
    /\ line # <<>>
    /\ \A i \in DOMAIN line : line[i] \in Range(HexLower) \cup Range(HexUpper)
    /\ LET I == {i \in DOMAIN line : line[i] # "0"}
       IN I # {} => \/ Len(line) - Min(I) + 1 < 16
                    \/ Len(line) - Min(I) + 1 = 16 /\ HexValue(line[Min(I)]) < 8

\* C8: for every chunk-size line that is not a valid non-negative hexadecimal
\* number (empty, non-hex characters or a chunk extension, negative, too
\* large), decoding ends in a returned error: no Response, no abort.
C8_BadChunkSizeIsError ==
    (rpc = "done" /\ sizeLines # <<>> /\ ~ValidChunkSize(sizeLines[Len(sizeLines)])) =>
        rout = "err"

----------------------------------------------------------------------------
(* Claims about validator.Validate, checked under SpecValidate *)

\* Validate has returned and recorded no blocking error
Passed == pc = "validated" /\ result.Errors = <<>>

C3_HostPresentAndNonEmpty ==
    (Passed /\ req.Version = sHTTP11) =>
        /\ sHost \in DOMAIN req.Headers
        /\ req.Headers[sHost] # <<>>

----------------------------------------------------------------------------
(* Claims about the command line and client.Send, checked under Spec *)

\* main has parsed its input and has gone past the checks that follow Validate
Dispatched == pc \notin {"start", "parsed", "validated"} /\ req0 # NoRequest

\* C1: whenever Validate records a blocking error the process exits with
\* failure and client.Send is never called; when Validate records no blocking
\* error, warnings or not, strict mode is off and no preview or save flag is
\* given, main proceeds to Send.
C1_ErrorsBlockSend ==
    /\ result.Errors # <<>> =>
          /\ sendCalls = 0
          /\ conn = "none"
          /\ pc \in {"validated", "exit"}
          /\ pc = "exit" => exitCode = 1
    /\ ( /\ Dispatched
         /\ result.Errors = <<>>
         /\ ~flags.strict /\ ~flags.dryRun /\ ~flags.saveRequest /\ ~flags.noSend ) => sendCalls = 1

\* a request with a blocking error has ended the process with status 1
C1_Witness ==
    /\ result.Errors # <<>>
    /\ pc = "exit"
    /\ exitCode = 1
    /\ sendCalls = 0

\* C4: after Validate returns with no blocking error the target is an absolute
\* URL that parses and has a scheme and a host, for absolute inputs and for
\* path-only inputs rewritten from any Host value; Send never rejects a
\* validated request as an invalid URL and never dials an empty host.
C4_TargetIsAbsoluteURL ==
    /\ (pc = "validated" /\ result.Errors = <<>>) =>
          /\ urlParse(req.URL).ok
          /\ urlParse(req.URL).Scheme # <<>>
          /\ Hostname(urlParse(req.URL)) # <<>>
    /\ sendErr # "invalid URL"
    /\ dialAddr # <<>> => Head(dialAddr) # ":"

\* C9: every Send call that opened a connection has closed it by the time it
\* returns, on every path.
C9_ConnectionClosedOnReturn ==
    (sendResult # "none" /\ dials > 0) => conn = "closed"

\* Send has returned the error of a failed read, the connection closed
C9_Witness ==
    /\ sendResult = "err"
    /\ writes = 1
    /\ ioErr = "reset"
    /\ conn = "closed"

\* C10: one Send call opens at most one connection and writes the request at
\* most once; after a failure it returns the error without another attempt.
C10_NoRetry ==
    /\ sendCalls <= 1
    /\ dials <= 1
    /\ writes <= 1
    /\ sendResult # "none" => pc \in {"sent", "exit"}

\* Send has failed after its one write and the process has ended
C10_Witness ==
    /\ sendResult = "err"
    /\ dials = 1
    /\ writes = 1
    /\ pc = "exit"
    /\ exitCode = 1

\* C11: for an https target no byte of the request is written before a TLS
\* handshake has completed with the certificate of the server verified for
\* the host name of the target; when the handshake or the verification fails
\* Send returns a connection error and nothing is written; Send never
\* switches verification off.
C11_TLSBeforeWrite ==
    (dials > 0 /\ urlParse(req.URL).Scheme = sHttps) =>
        /\ ~tlsConfig.InsecureSkipVerify
        /\ tlsConfig.ServerName = Hostname(urlParse(req.URL))
        /\ writes > 0 => tlsDone /\ peerCert = Hostname(urlParse(req.URL))
        /\ ~tlsDone =>
              /\ writes = 0
              /\ wire = <<>>
              /\ sendResult = "err"
              /\ sendErr = "connection failed"

\* the certificate of the peer was for another host: Send has failed with
\* nothing written
C11_Witness ==
    /\ urlParse(req.URL).Scheme = sHttps
    /\ dials = 1
    /\ peerCert # <<>>
    /\ peerCert # tlsConfig.ServerName
    /\ sendErr = "connection failed"
    /\ writes = 0

----------------------------------------------------------------------------
(* C12: the request line *)

\* the request-target a target is written with: the text from the first slash
\* after the authority up to the fragment, "/" for an empty path, the "?" and
\* the query kept when the query is not empty
TargetAsWritten(url) ==
    LET hash == Index(url, <<"#">>)
        noFrag == IF hash = 0 THEN url ELSE Take(url, hash - 1)
        i == Index(noFrag, <<":", "/", "/">>)
        afterScheme == IF i = 0 THEN noFrag ELSE Drop(noFrag, i + 3)
        q == Index(afterScheme, <<"?">>)
        hier == IF q = 0 THEN afterScheme ELSE Take(afterScheme, q - 1)
        query == IF q = 0 THEN <<>> ELSE Drop(afterScheme, q + 1)
        s == Index(hier, <<"/">>)
    IN (IF s = 0 THEN <<"/">> ELSE Drop(hier, s))
           \o (IF query # <<>> THEN <<"?">> \o query ELSE <<>>)

\* the first line of a serialized request, without its CR LF
RequestLine(text) == Take(text, Index(text, sCRLF) - 1)

\* C12: the request line of the bytes written to the connection, and of the
\* text ToRawRequest gave to be saved or printed, is the method, a space, the
\* path and query of the target as the target is written ("/" for an empty
\* path), a space and the version: three fields separated by single spaces,
\* with no scheme and no host in the request-target.
C12_RequestLine ==
    \A text \in {wire, rawText} \ {<<>>} :
        /\ RequestLine(text) = req.Method \o <<SP>> \o TargetAsWritten(req.URL) \o <<SP>> \o req.Version
        /\ Len(Split(RequestLine(text), SP)) = 3

----------------------------------------------------------------------------
(* C13: the order of the header lines *)

RECURSIVE HeaderNames(_, _)
\* the names of the header lines of a template from line i on, as written
HeaderNames(lines, i) ==
    IF i > Len(lines) THEN <<>>
    ELSE IF Index(TrimSpace(lines[i]), <<":">>) = 0 THEN <<>>
    ELSE <<TrimSpace(Take(TrimSpace(lines[i]), Index(TrimSpace(lines[i]), <<":">>) - 1))>>
             \o HeaderNames(lines, i + 1)

RECURSIVE Dedupe(_)
\* a sequence without the later occurrences of its elements
Dedupe(s) ==
    IF s = <<>> THEN <<>>
    ELSE IF s[Len(s)] \in Range(Take(s, Len(s) - 1)) THEN Dedupe(Take(s, Len(s) - 1))
    ELSE Append(Dedupe(Take(s, Len(s) - 1)), s[Len(s)])

\* the header names of the input in the order of its header lines
InputOrder ==
    LET content == IF flags.loadRequest \/ Contains(input, sCRLF) THEN input ELSE preprocess(input)
        lines == Split(content, LF)
        NonBlank == {i \in DOMAIN lines : TrimSpace(lines[i]) # <<>>}
    IN Dedupe(HeaderNames(lines, Min(NonBlank) + 1))

\* the order the Request stores its headers in: the input's, then the
\* headers validation added
StoredOrder ==
    LET added(o, name) == IF name \in DOMAIN req.Headers /\ name \notin Range(o) THEN Append(o, name) ELSE o
    IN added(added(InputOrder, sHost), sContentLength)

\* the header lines of a serialized request: from the end of the request line
\* to the empty line
HeaderBlock(text) ==
    LET rest == Drop(text, Index(text, sCRLF) + 2)
    IN IF HasPrefix(rest, sCRLF) THEN <<>> ELSE Take(rest, Index(rest, sCRLF \o sCRLF) + 1)

\* C13: the header lines of the bytes written to the connection, and of the
\* text ToRawRequest gave, are one "Name: Value CRLF" line per header in the
\* order the Request stores them, the order of the input's header lines; so
\* one Request has one serialization.
C13_HeaderOrder ==
    \A text \in {wire, rawText} \ {<<>>} :
        /\ Range(StoredOrder) = DOMAIN req.Headers
        /\ HeaderBlock(text) = HeaderLines(req.Headers, StoredOrder)

----------------------------------------------------------------------------
(* C14: the round trip through the wire text *)

\* two targets name the same scheme, host, path and query
SameTarget(a, b) ==
    /\ urlParse(a).ok
    /\ urlParse(b).ok
    /\ urlParse(a).Scheme = urlParse(b).Scheme
    /\ urlParse(a).Host = urlParse(b).Host
    /\ urlParse(a).Path = urlParse(b).Path
    /\ urlParse(a).RawQuery = urlParse(b).RawQuery

\* C14: the text ToRawRequest gave for a validated request without errors
\* parses, through the path for wire-ready text, to a request with the same
\* method, version and headers, whose target, once validated under the same
\* flags, has the scheme, host, path and query of the original target.
C14_RoundTrip ==
    rawText # <<>> =>
        /\ Contains(rawText, sCRLF)
        /\ Parse(rawText).err = "nil"
        /\ Parse(rawText).req.Method = req.Method
        /\ Parse(rawText).req.Version = req.Version
        /\ Parse(rawText).req.Headers = req.Headers
        /\ ~HasErrors(Validate(Parse(rawText).req, flags.noSecure))
        /\ SameTarget(Validate(Parse(rawText).req, flags.noSecure).req.URL, req.URL)

----------------------------------------------------------------------------
(* C15: format detection *)

\* parser.Parse has returned
Parsed == parsing.done /\ ~flags.loadRequest

\* C15: Parse runs the preprocessor exactly when the input holds no CR LF
\* pair. An input with the pair is handed to parseHTTP as it is: no line is
\* dropped, no environment variable is looked up and no command is run. Any
\* other input is preprocessed, and the lines the preprocessor emitted are
\* what parseHTTP gets.
C15_PreprocessIffNoCRLF ==
    Parsed =>
        /\ parsing.preprocessed <=> ~Contains(input, sCRLF)
        /\ Contains(input, sCRLF) =>
              /\ parsing.lookups = <<>>
              /\ parsing.commands = <<>>
              /\ parsing.err = parseHTTP(input).err
              /\ req = parseHTTP(input).req
        /\ ~Contains(input, sCRLF) =>
              /\ parsing.err = parseHTTP(Join(parsing.lines, <<LF>>)).err
              /\ req = parseHTTP(Join(parsing.lines, <<LF>>)).req

\* a text with a CR LF pair, a comment marker and a command was parsed as it is
C15_Witness ==
    /\ Parsed
    /\ Contains(input, sCRLF)
    /\ Contains(input, <<"$", "(">>)
    /\ Contains(input, <<"#">>)
    /\ ~parsing.preprocessed
    /\ parsing.err = "nil"
    /\ <<"C">> \in DOMAIN req.Headers
    /\ Contains(req.Headers[<<"C">>], <<"$", "(">>)

----------------------------------------------------------------------------
(* C16: comment lines *)

\* the first byte of the line that is no white space begins "#" or "//"
StartsComment(l) ==
    \E i \in DOMAIN l :
        /\ \A j \in 1..(i - 1) : IsSpace(l[j])
        /\ \/ l[i] = "#"
           \/ l[i] = "/" /\ i < Len(l) /\ l[i + 1] = "/"

\* the lines of the input that are no comments
NonCommentLines == SelectSeq(ScanLines(input), LAMBDA l : ~StartsComment(l))

\* C16: the preprocessor emits one line for every line of the template that
\* is no comment and nothing for a comment line, not even a blank line; the
\* lookups and the commands are those of the lines that are no comments, so
\* a template with dollar signs in its comments only looks nothing up and
\* runs nothing: the comment test comes before any substitution.
C16_CommentsAreDropped ==
    parsing.preprocessed =>
        /\ Len(parsing.lines) = Len(NonCommentLines)
        /\ \A i \in DOMAIN parsing.lines :
              parsing.lines[i] = executeShellCommands(expandEnvVars(NonCommentLines[i]))
        /\ parsing.lookups = Flatten([i \in DOMAIN NonCommentLines |-> envLookups(NonCommentLines[i])])
        /\ (\A i \in DOMAIN NonCommentLines : ~Contains(NonCommentLines[i], <<"$">>)) =>
              /\ parsing.lookups = <<>>
              /\ parsing.commands = <<>>

\* a template of two comments with a command and variables in them, and a
\* request line, was preprocessed to the request line alone
C16_Witness ==
    /\ parsing.preprocessed
    /\ Contains(input, lComment)
    /\ Contains(input, lSlashComment)
    /\ parsing.lines = <<lGet>>
    /\ parsing.lookups = <<>>
    /\ parsing.commands = <<>>
    /\ parsing.err = "nil"

----------------------------------------------------------------------------
(* C17: failures of the preprocessor *)

\* what a line of a template is to become: the command that fails gives the
\* bracketed marker, the unset variables give nothing, the command that runs
\* gives its output and the variable that is set its value; a line without a
\* dollar sign stays as it is
Degraded(l) ==
    IF l = lHeaderDegraded THEN <<"B", ":", SP, ".">> \o sExitError \o <<"!">>
    ELSE IF l = lHeaderCmd THEN <<"C", ":", SP, "h", "i", "-">> \o sSecret
    ELSE l

\* C17: the preprocessor never fails the parse. A command that fails leaves
\* the marker "[error: ...]" in its place, an unset ${NAME} or $NAME leaves
\* nothing, the rest of the line and every later line are processed all the
\* same, and the parse fails only where parseHTTP rejects the emitted text.
C17_FailuresBecomeText ==
    parsing.preprocessed =>
        /\ Len(parsing.lines) = Len(NonCommentLines)
        /\ \A i \in DOMAIN parsing.lines : parsing.lines[i] = Degraded(NonCommentLines[i])
        /\ parsing.err = parseHTTP(Join([i \in DOMAIN NonCommentLines |-> Degraded(NonCommentLines[i])], <<LF>>)).err
        /\ parsing.err = "nil" => req = parseHTTP(Join([i \in DOMAIN NonCommentLines |-> Degraded(NonCommentLines[i])], <<LF>>)).req

\* a template with unset variables and a failing command in one header, and
\* a command in the next, was parsed: the first header has the text around
\* the variables and the marker as its value, the second command was run
C17_Witness ==
    /\ parsing.preprocessed
    /\ input = Join(<<lGet, lHeaderDegraded, lHeaderCmd>>, <<LF>>) \o <<LF>>
    /\ parsing.err = "nil"
    /\ parsing.commands = <<<<"f", "a", "l", "s", "e">>, sEcho>>
    /\ req.Headers[<<"B">>] = <<".">> \o sExitError \o <<"!">>
    /\ req.Headers[<<"C">>] = <<"h", "i", "-">> \o sSecret

----------------------------------------------------------------------------
(* C18: preprocessing twice *)

\* the text has none of the markers "#", "//", "${", "$" and "$("
MarkerFree(text) ==
    /\ ~Contains(text, <<"#">>)
    /\ ~Contains(text, <<"/", "/">>)
    /\ ~Contains(text, <<"$">>)

\* the text ends with a line feed
EndsWithLF(text) == text # <<>> /\ text[Len(text)] = LF

----------------------------------------------------------------------------
(* C19: the errors of the structural parse *)

\* the lines of the text the structural parse is given: the input itself, or
\* what the preprocessor emitted
StructuralLines == IF parsing.preprocessed THEN Split(Join(parsing.lines, <<LF>>), LF) ELSE Split(input, LF)

\* the line has bytes other than white space
NonBlank(l) == \E i \in DOMAIN l : ~IsSpace(l[i])

\* the number of tokens of a line: the places where white space ends
TokenCount(l) == Cardinality({i \in DOMAIN l : ~IsSpace(l[i]) /\ (i = 1 \/ IsSpace(l[i - 1]))})

\* the text has no request line, a request line of fewer than two tokens, or
\* a line without a colon between the request line and the first blank line
\* after it
Malformed(lines) ==
    LET first == {i \in DOMAIN lines : NonBlank(lines[i]) /\ \A j \in 1..(i - 1) : ~NonBlank(lines[j])}
    IN \/ first = {}
       \/ \E i \in first :
             \/ TokenCount(lines[i]) < 2
             \/ \E k \in (i + 1)..Len(lines) :
                   /\ \A j \in (i + 1)..k : NonBlank(lines[j])
                   /\ ~Contains(lines[k], <<":">>)

\* C19: Parse returns an error and no Request, not even one filled in part,
\* and main exits with status 1, when the text to parse is empty or blank,
\* when its first non-blank line has fewer than two tokens, or when a line
\* between the request line and the first blank line has no colon; any other
\* text parses, the first two tokens being the method and the target, and the
\* version being the third token or, without one, HTTP/1.1.
C19_MalformedFails ==
    Parsed =>
        IF Malformed(StructuralLines)
        THEN /\ parsing.err # "nil"
             /\ parsing.req = NoRequest
             /\ req = NoRequest
             /\ pc = "exit"
             /\ exitCode = 1
        ELSE /\ parsing.err = "nil"
             /\ pc = "parsed"
             /\ req = parsing.req
             /\ \E i \in DOMAIN StructuralLines :
                   /\ NonBlank(StructuralLines[i])
                   /\ \A j \in 1..(i - 1) : ~NonBlank(StructuralLines[j])
                   /\ req.Method = Fields(StructuralLines[i])[1]
                   /\ req.URL = Fields(StructuralLines[i])[2]
                   /\ req.Version = IF TokenCount(StructuralLines[i]) >= 3 THEN Fields(StructuralLines[i])[3] ELSE sHTTP11

\* a template with a good request line, a good header and then a line
\* without a colon was rejected
C19_Witness ==
    /\ Parsed
    /\ input = Join(<<lGet, lHeaderCmd, lNoColon>>, <<LF>>)
    /\ parsing.err = "invalid header"
    /\ parsing.req = NoRequest
    /\ exitCode = 1

----------------------------------------------------------------------------
(* C20: the strict flag *)

\* C20: with the strict flag, a request whose validation gave a warning, the
\* notices of an added Host or Content-Length header included, is never
\* sent, never saved and never printed, neither as wire text nor as a
\* preview: no Send is called, nothing is dialled or written, and the process
\* exits with status 1, in both mains.
C20_StrictBlocksWarnings ==
    (flags.strict /\ HasWarnings(result)) =>
        /\ pc \in {"validated", "exit"}
        /\ sendCalls = 0
        /\ dials = 0
        /\ wire = <<>>
        /\ rawText = <<>>
        /\ output = "none"
        /\ pc = "exit" => exitCode = 1

\* a request that only got the notice of an added Host header was to be
\* saved under the strict flag: the process exited with status 1, nothing saved
C20_Witness ==
    /\ flags.strict
    /\ flags.saveRequest
    /\ result.Warnings = <<"Added missing Host header">>
    /\ ~HasErrors(result)
    /\ pc = "exit"
    /\ exitCode = 1
    /\ output = "none"

----------------------------------------------------------------------------
(* C21: the preview and save flags *)

\* C21: with a dry-run, save-request or no-send flag the process stops after
\* validation, whether validation found errors or not: client.Send is never
\* called, nothing is dialled, no connection exists and nothing is written.
C21_PreviewNeverSends ==
    (flags.dryRun \/ flags.saveRequest \/ flags.noSend) =>
        /\ sendCalls = 0
        /\ dials = 0
        /\ conn = "none"
        /\ ~tlsDone
        /\ writes = 0
        /\ wire = <<>>
        /\ pc \in {"start", "parsed", "validated", "exit"}

\* a request without errors was printed as wire text under -no-send and the
\* process ended with status 0, no Send called
C21_Witness ==
    /\ flags.noSend
    /\ result.Errors = <<>>
    /\ output = "raw"
    /\ rawText # <<>>
    /\ pc = "exit"
    /\ exitCode = 0
    /\ sendCalls = 0

----------------------------------------------------------------------------
(* C22: the port Send connects to *)

\* C22: the address Send dials has the host name of the target and, as its
\* port, the port the caller gave when that is not 0; otherwise the port
\* written in the target; otherwise 443 for https and 80 for any other scheme.
C22_PortResolution ==
    dialAddr # <<>> =>
        dialAddr = Hostname(urlParse(req.URL)) \o <<":">> \o
            (IF flags.port # 0 THEN Itoa(flags.port)
             ELSE IF Port(urlParse(req.URL)) # <<>> THEN Port(urlParse(req.URL))
             ELSE IF urlParse(req.URL).Scheme = sHttps THEN s443
             ELSE s80)

\* a target that names port 8443 was dialled on the port the caller gave
C22_Witness ==
    /\ flags.port = 8080
    /\ Port(urlParse(req.URL)) = <<"8", "4", "4", "3">>
    /\ dialAddr = <<"h", ".", "i", "o", ":", "8", "0", "8", "0">>
    /\ dials = 1

----------------------------------------------------------------------------
(* C23: the scheme of the validated target *)

\* Validate has returned without a blocking error
Valid == pc = "validated" /\ ~HasErrors(result)

----------------------------------------------------------------------------
(* C24: duplicate header lines *)

\* the names of the header lines of the input, one for each line
InputHeaderNames ==
    LET content == IF flags.loadRequest \/ Contains(input, sCRLF) THEN input ELSE preprocess(input)
        lines == Split(content, LF)
        NonBlankLines == {i \in DOMAIN lines : TrimSpace(lines[i]) # <<>>}
    IN HeaderNames(lines, Min(NonBlankLines) + 1)

\* two header lines of the input have names that are equal ignoring case
HasDuplicateLines ==
    \E i, j \in DOMAIN InputHeaderNames : i # j /\ ToLower(InputHeaderNames[i]) = ToLower(InputHeaderNames[j])

\* the input was parsed and the request validated
Validated == parsing.done /\ parsing.err = "nil" /\ pc \notin {"start", "parsed"}

\* C24: when two header lines of the input have names that are equal
\* ignoring case, two lines with the very same name included, validation
\* records the duplicate-header warning and no blocking error.
C24_DuplicateWarned ==
    (Validated /\ HasDuplicateLines) =>
        /\ \E i \in DOMAIN result.Warnings : result.Warnings[i] = "Duplicate header (case-insensitive)"
        /\ ~HasErrors(result)

----------------------------------------------------------------------------
(* C25: header lookup of the validator *)

\* the names under which the request r carries the header called name, in any letter case
CarriedAs(r, name) == {k \in DOMAIN r.Headers : ToLower(k) = ToLower(name)}

\* the validation result holds the message msg, as a warning or as an error
Reports(msg) ==
    \/ \E i \in DOMAIN result.Warnings : result.Warnings[i] = msg
    \/ \E i \in DOMAIN result.Errors : result.Errors[i] = msg

\* C25: a Host, Content-Length or Content-Type header that the request
\* carries under any letter case counts as present: Validate adds no second
\* header of that name and reports no missing header.
C25_CaseInsensitiveLookup ==
    pc = "validated" =>
        /\ CarriedAs(req0, sHost) # {} =>
              /\ CarriedAs(req, sHost) = CarriedAs(req0, sHost)
              /\ ~Reports("Added missing Host header")
              /\ ~Reports("Host header is required for HTTP/1.1")
        /\ CarriedAs(req0, sContentLength) # {} =>
              /\ CarriedAs(req, sContentLength) = CarriedAs(req0, sContentLength)
              /\ ~Reports("Added missing Content-Length header")
        /\ CarriedAs(req0, sContentType) # {} =>
              ~Reports("Content-Type header is recommended when sending a body")

----------------------------------------------------------------------------
(* C26: a response whose head shows an empty body *)

\* the head read shows an empty body: Content-Length 0, or status 204 with no
\* Content-Length, in both cases without chunked encoding
EmptyBodyHead ==
    /\ ~UseChunked(resp.Headers)
    /\ \/ /\ sContentLength \in DOMAIN resp.Headers
          /\ resp.Headers[sContentLength] = <<"0">>
       \/ /\ sContentLength \notin DOMAIN resp.Headers
          /\ resp.StatusCode = 204

\* the peer sent the head and nothing more, and keeps the connection open:
\* the next read ends only when the deadline passes
PeerKeepsOpen == endMode = "timeout" /\ Len(stream) = bodyStart

\* C26: when the head shows an empty body and the peer keeps the connection
\* open, readResponse returns the Response with the empty body once the blank
\* line is read: no read waits for the close or for the deadline.
C26_EmptyBodyReturnsAtOnce ==
    (rpc = "done" /\ bodyStart > 0 /\ EmptyBodyHead /\ PeerKeepsOpen) =>
        /\ rout = "resp"
        /\ resp.Body = <<>>
        /\ ioErr = "none"

----------------------------------------------------------------------------
(* Claims about substitutions, checked under SpecSubst and SpecSubstFair *)

\* C27: the preprocessor terminates for every template: every run of main
\* comes out of the parser, also when the value of a variable holds ${...} or
\* the output of a command holds $(...).
C27_PreprocessorTerminates == <>(pc \notin {"start", "preprocess"})

\* the template itself asks for the command: it holds $(command)
WrittenCommand(command) == Contains(input, <<"$", "(">> \o command \o <<")">>)

\* the template itself asks for the variable: it holds ${name} or $name
WrittenName(name) ==
    \/ Contains(input, <<"$", "{">> \o name \o <<"}">>)
    \/ Contains(input, <<"$">> \o name)

\* C28: inserted text is inert: the preprocessor runs no command and looks up
\* no variable but those the template itself asks for; the value of a variable
\* or the output of a command is never scanned for markers or run.
C28_InsertedTextIsInert ==
    parsing.done =>
        /\ \A i \in DOMAIN parsing.commands : WrittenCommand(parsing.commands[i])
        /\ \A i \in DOMAIN parsing.lookups : WrittenName(parsing.lookups[i])

\* the header names the template writes: those of its lines, comments left
\* out, from the line after the request line up to the first line that is no
\* header line
TemplateHeaderNames ==
    LET kept == SelectLines(ScanLines(input))
        NonBlankLines == {i \in DOMAIN kept : TrimSpace(kept[i]) # <<>>}
    IN IF NonBlankLines = {} THEN {} ELSE Range(HeaderNames(kept, Min(NonBlankLines) + 1))

\* C29: a substitution does not change the line structure: every line the
\* preprocessor emits is one line, and the parsed Request has exactly the
\* header names the template writes, also when an inserted value holds line
\* feeds, blank lines or colons.
C29_LineStructureKept ==
    (parsing.done /\ parsing.preprocessed /\ parsing.err = "nil") =>
        /\ \A i \in DOMAIN parsing.lines : ~Contains(parsing.lines[i], <<LF>>)
        /\ DOMAIN parsing.req.Headers = TemplateHeaderNames

----------------------------------------------------------------------------
(* C30: the captured-request list of the test server *)

\* the positions between Lock and Unlock
InCriticalSection(g) == gpc[g] \in {"append", "store", "unlock", "get", "clear"}

\* the number of times request g is in the captured-request list
TimesRecorded(g) == Cardinality({i \in 1..Requests.len : heap[Requests.arr][i] = g})

\* C30: with the requests handled concurrently, at most one goroutine is
\* between Lock and Unlock; no request is recorded twice, and while nothing
\* was cleared every request whose handler is past the capture is recorded
\* exactly once; every slice GetRequests returned still holds the elements it
\* held when it was returned.
C30_CapturesAreExclusive ==
    /\ \A g1, g2 \in DOMAIN gpc : (InCriticalSection(g1) /\ InCriticalSection(g2)) => g1 = g2
    /\ \A g \in DOMAIN gpc \ {TestGoroutine} :
          /\ TimesRecorded(g) <= 1
          /\ (clears = 0 /\ gpc[g] \in {"respond", "done"}) => TimesRecorded(g) = 1
    /\ \A i \in DOMAIN snapshots : Elems(heap, snapshots[i].slice) = snapshots[i].elems

\* every handler is done, GetRequests returned a snapshot with a request in
\* it, and a capture and a ClearRequests came after it
C30_Witness ==
    /\ gpc # <<>>
    /\ \A g \in Handlers : gpc[g] = "done"
    /\ clears = 1
    /\ Len(snapshots) = 1
    /\ Len(snapshots[1].elems) \in 1..(MaxRequests - 1)
    /\ Requests.len = 0

====
